---- MODULE Spec2Model ----
(***************************************************************************)
(* Tableau workbook generator: the data model of src/models/schemas.py    *)
(* and the generation engine of src/tableau_engine/generator.py           *)
(* (specification builder, XML serialization, packaging,                  *)
(* generate_workbook) as a state machine.                                  *)
(*                                                                         *)
(* XML documents are element trees: an element is a record                *)
(* [tag, attrs, text, kids] with attrs a sequence of <<name, value>>       *)
(* pairs in insertion order, as xml.etree.ElementTree keeps them.          *)
(* Every attribute value and text is a string: the code formats numbers    *)
(* with str() before it stores them.                                       *)
(***************************************************************************)
EXTENDS Integers, Sequences, FiniteSets, TLC

\* Python None (Optional fields, error_message of a successful result).
None == "<None>"

(***************************************************************************)
(* Bounds of the model.                                                    *)
(***************************************************************************)
\* Longest recommended_visualizations list.
MaxViz == 4
\* Longest DatasetSchema.columns list.
MaxCols == 2
\* Longest DatasetSchema.calculated_fields list.
MaxCalc == 2
\* Most constructions of data model objects followed.
MaxObjects == 2
\* Priorities run from PriorityMin - PriorityMargin to PriorityMax + PriorityMargin.
PriorityMargin == 2
\* total_rows runs from -1 to SampleRowLimit + RowsBeyondLimit.
RowsBeyondLimit == 1

(***************************************************************************)
(* Program constants.                                                      *)
(***************************************************************************)
\* range(min(100, total_rows)) in _generate_sample_csv.
SampleRowLimit == 100
\* cols = 2 if total > 2 else total, in _add_zone_properties.
GridColumns == 2
\* zone.set("x", str(col * 400)); zone.set("w", "400").
ZoneWidth == 400
\* zone.set("y", str(row * 300)); zone.set("h", "300").
ZoneHeight == 300
\* DashboardSpec.dimensions default {"width": 1200, "height": 800}.
DashboardWidth == 1200
DashboardHeight == 800
\* KPISpecification.priority: Field(1, ge=1, le=5).
PriorityDefault == 1
PriorityMin == 1
PriorityMax == 5
\* DatasetSchema.data_quality_score: Field(..., ge=0, le=1).
ScoreMin == 0
ScoreMax == 1

\* self.tableau_version, self.build_version and self.output_directory.
tableau_version == "2023.3"
build_version == "20233.23.0322.1437"
output_directory == "data/outputs"

(***************************************************************************)
(* Enumerations of the data model, in declaration order.                   *)
(***************************************************************************)
DataType ==
    <<"integer", "float", "string", "date", "datetime", "boolean", "categorical">>

VisualizationType ==
    <<"bar", "line", "area", "scatter", "pie", "histogram", "heatmap",
      "treemap", "map", "filled_map", "gantt", "packed_bubbles", "box_plot",
      "bullet_graph">>

\* DataColumn.recommended_role: Optional[Literal[...]].
ColumnRoles == <<"dimension", "measure", "attribute", None>>

\* CalculatedFieldSpec.role: Optional[Literal["dimension", "measure"]].
CalcRoles == <<"measure", "dimension", None>>

\* VisualizationSpec.aggregation_type: Optional[Literal[...]].
AggregationTypes == <<"sum", "avg", "count", "min", "max", None>>

Range(s) == {s[i] : i \in DOMAIN s}

\* The element of sequence s at 1-based position i, wrapping around.
Cyclic(s, i) == s[((i - 1) % Len(s)) + 1]

\* The n elements of the cyclic sequence s that start at position start.
Window(s, start, n) == [i \in 1..n |-> Cyclic(s, start + i - 1)]

\* Every window of at most max elements (the empty list once).
Windows(s, max) ==
    {<<>>} \cup {Window(s, start, n) : start \in 1..Len(s), n \in 1..max}

(***************************************************************************)
(* Input values: DataColumn, CalculatedFieldSpec and VisualizationSpec     *)
(* objects the data model accepts.  sample_values hold the text csv.writer *)
(* writes for each value.                                                  *)
(***************************************************************************)
DataColumn(i) ==
    [name |-> "col" \o ToString(i),
     data_type |-> Cyclic(DataType, i),
     null_count |-> IF ((i - 1) \div Len(ColumnRoles)) % 2 = 0 THEN 0 ELSE i,
     sample_values |->
        IF i <= Len(DataType) THEN <<>>
        ELSE [j \in 1..(1 + (i % 3)) |-> "v" \o ToString(i) \o "_" \o ToString(j)],
     recommended_role |-> Cyclic(ColumnRoles, i)]

\* Every data type once without and once with recorded sample values.
ColumnCatalog == [i \in 1..(2 * Len(DataType)) |-> DataColumn(i)]

CalculatedFieldSpec(i) ==
    [name |-> "calc" \o ToString(i),
     formula |-> "SUM([col" \o ToString(i) \o "])",
     data_type |-> Cyclic(DataType, i),
     role |-> Cyclic(CalcRoles, i)]

CalcCatalog == [i \in 1..Len(CalcRoles) |-> CalculatedFieldSpec(i)]

AxisChoices == << <<"col1">>, <<>>, <<"col1", "col2">> >>

VisualizationSpec(i) ==
    [chart_type |-> Cyclic(VisualizationType, i),
     title |-> "Chart " \o ToString(i),
     x_axis |-> Cyclic(AxisChoices, i),
     y_axis |-> Cyclic(AxisChoices, 1 + (i \div Len(AxisChoices))),
     color_field |-> IF i % 2 = 0 THEN None ELSE "col3",
     size_field |-> IF i % 4 < 2 THEN None ELSE "col2",
     aggregation_type |-> Cyclic(AggregationTypes, i)]

\* One visualization per chart type.
VizCatalog == [i \in 1..Len(VisualizationType) |-> VisualizationSpec(i)]

DatasetNames == {"Sales", "Ops"}
OutputFormats == {"twb", "twbx"}
TotalRowsChoices ==
    {-1, 0, 3, SampleRowLimit - 1, SampleRowLimit} \cup
    {SampleRowLimit + d : d \in 1..RowsBeyondLimit}

(***************************************************************************)
(* GenerationRequest values.  Each family varies some of the fields of     *)
(* BaseRequest over all their modelled values.                             *)
(***************************************************************************)
BaseRequest ==
    [dataset_schema |->
        [name |-> "Sales",
         total_rows |-> 3,
         columns |-> Window(ColumnCatalog, 1, 2),
         calculated_fields |-> <<>>],
     ai_analysis |->
        [recommended_visualizations |-> Window(VizCatalog, 1, 3)],
     output_format |-> "twbx",
     include_sample_data |-> TRUE]

VizRequests ==
    {[BaseRequest EXCEPT !.ai_analysis.recommended_visualizations = v,
                         !.output_format = f] :
        v \in Windows(VizCatalog, MaxViz), f \in OutputFormats}

SchemaRequests ==
    {[BaseRequest EXCEPT !.dataset_schema.columns = c,
                         !.dataset_schema.calculated_fields = k] :
        c \in Windows(ColumnCatalog, MaxCols), k \in Windows(CalcCatalog, MaxCalc)}

SampleRequests ==
    {[BaseRequest EXCEPT !.dataset_schema.columns = c,
                         !.dataset_schema.total_rows = t,
                         !.include_sample_data = s] :
        c \in Windows(ColumnCatalog, MaxCols), t \in TotalRowsChoices,
        s \in BOOLEAN}

PackagingRequests ==
    {[BaseRequest EXCEPT !.dataset_schema.name = n,
                         !.output_format = f,
                         !.include_sample_data = s,
                         !.ai_analysis.recommended_visualizations = v,
                         !.dataset_schema.calculated_fields = k] :
        n \in DatasetNames, f \in OutputFormats, s \in BOOLEAN,
        v \in Windows(VizCatalog, 1), k \in Windows(CalcCatalog, 1)}

Requests == VizRequests \cup SchemaRequests \cup SampleRequests \cup PackagingRequests

(***************************************************************************)
(* Exceptions.  An operator that can raise yields either its value or a    *)
(* Raise record; ExceptionTypes are the subclasses of Exception the        *)
(* modelled code paths raise.                                              *)
(***************************************************************************)
ExceptionTypes == {"TypeError", "IndexError", "MemoryError", "OSError"}

Raise(type, message) == [exc |-> type, message |-> message]

IsRaise(v) == "exc" \in DOMAIN v

\* The first Raise record among the elements of s, if any.
FirstRaise(s) ==
    LET at == {i \in DOMAIN s : IsRaise(s[i])}
    IN  s[CHOOSE i \in at : \A j \in at : i <= j]

AnyRaise(s) == \E i \in DOMAIN s : IsRaise(s[i])

(***************************************************************************)
(* xml.etree.ElementTree: Element, SubElement, set, get.                   *)
(***************************************************************************)
Element(tag) == [tag |-> tag, attrs |-> <<>>, text |-> None, kids |-> <<>>]

Set(e, key, value) ==
    IF \E i \in DOMAIN e.attrs : e.attrs[i][1] = key
    THEN [e EXCEPT !.attrs =
            [i \in DOMAIN e.attrs |->
                IF e.attrs[i][1] = key THEN <<key, value>> ELSE e.attrs[i]]]
    ELSE [e EXCEPT !.attrs = Append(@, <<key, value>>)]

Get(e, key) ==
    IF \E i \in DOMAIN e.attrs : e.attrs[i][1] = key
    THEN e.attrs[CHOOSE i \in DOMAIN e.attrs : e.attrs[i][1] = key][2]
    ELSE None

Text(e, text) == [e EXCEPT !.text = text]

SubElements(e, kids) == [e EXCEPT !.kids = @ \o kids]

\* The children of e with the given tag, in document order.
RECURSIVE SelectTag(_, _)
SelectTag(kids, tag) ==
    IF kids = <<>> THEN <<>>
    ELSE (IF Head(kids).tag = tag THEN <<Head(kids)>> ELSE <<>>)
         \o SelectTag(Tail(kids), tag)

Children(e, tag) == SelectTag(e.kids, tag)

Child(e, tag) == Children(e, tag)[1]

Leaf(tag, text) == Text(Element(tag), text)

(***************************************************************************)
(* Lookup tables of the serializer.                                        *)
(***************************************************************************)
TypeMapping ==
    [integer |-> "integer", float |-> "real", string |-> "string",
     datetime |-> "datetime", boolean |-> "boolean", categorical |-> "string"]

\* A mapping that also sends date to datetime, as the docstring's table has it.
DataTypeWithDate(data_type) ==
    IF data_type = "date" THEN "datetime"
    ELSE IF data_type \in DOMAIN TypeMapping THEN TypeMapping[data_type]
    ELSE "string"

\* mapping.get(data_type.value, "string")
_get_tableau_data_type(data_type) ==
    IF data_type \in DOMAIN TypeMapping THEN TypeMapping[data_type] ELSE "string"

MarkMapping ==
    [bar |-> "Bar", line |-> "Line", area |-> "Area", scatter |-> "Circle",
     pie |-> "Pie", heatmap |-> "Square", treemap |-> "Square", map |-> "Map"]

\* A mark table that names histogram marks too.
MarkTypeWithHistogram(chart_type) ==
    IF chart_type = "histogram" THEN "Bar"
    ELSE IF chart_type \in DOMAIN MarkMapping THEN MarkMapping[chart_type]
    ELSE "Automatic"

\* mapping.get(chart_type, "Automatic")
_get_tableau_mark_type(chart_type) ==
    IF chart_type \in DOMAIN MarkMapping THEN MarkMapping[chart_type]
    ELSE "Automatic"

\* str.title() on the aggregation literals.
Title(aggregation) ==
    CASE aggregation = "sum" -> "Sum"
      [] aggregation = "avg" -> "Avg"
      [] aggregation = "count" -> "Count"
      [] aggregation = "min" -> "Min"
      [] aggregation = "max" -> "Max"
      [] OTHER -> aggregation

(***************************************************************************)
(* Workbook specification builder.                                         *)
(***************************************************************************)
DashboardLayout ==
    [layout_type |-> "automatic", rows |-> 2, columns |-> 2,
     worksheet_positions |-> <<>>]

\* A builder that numbers the sheets from 0.
WorksheetSpecZeroBased(i, viz_spec) ==
    [name |-> "Sheet " \o ToString(i),
     visualization |-> viz_spec,
     kpis |-> <<>>,
     description |-> "Generated visualization: " \o viz_spec.title]

\* A builder that gives every sheet the same name.
WorksheetSpecOneName(i, viz_spec) ==
    [name |-> "Sheet 1",
     visualization |-> viz_spec,
     kpis |-> <<>>,
     description |-> "Generated visualization: " \o viz_spec.title]

\* WorksheetSpec(name=f"Sheet {i+1}", ...) for the 0-based index i.
WorksheetSpec(i, viz_spec) ==
    [name |-> "Sheet " \o ToString(i + 1),
     visualization |-> viz_spec,
     kpis |-> <<>>,
     description |-> "Generated visualization: " \o viz_spec.title]

_create_workbook_specification(request) ==
    LET vizs == request.ai_analysis.recommended_visualizations
        worksheets == [p \in 1..Len(vizs) |-> WorksheetSpec(p - 1, vizs[p])]
        dashboard ==
            [name |-> "AI Generated Dashboard",
             description |-> "Automatically generated dashboard based on AI analysis",
             worksheets |-> worksheets,
             layout |-> DashboardLayout,
             color_scheme |-> "tableau10",
             dimensions |-> [width |-> DashboardWidth, height |-> DashboardHeight]]
    IN  [name |-> request.dataset_schema.name \o "_Dashboard",
         description |-> "AI-generated dashboard for " \o request.dataset_schema.name,
         dashboards |-> <<dashboard>>,
         data_source |-> request.dataset_schema.name,
         version |-> tableau_version]

\* The placeholder specification of a failed generation.
FailedWorkbookSpec ==
    [name |-> "Failed Generation",
     description |-> "Generation failed",
     dashboards |-> <<>>,
     data_source |-> "",
     version |-> tableau_version]

(***************************************************************************)
(* XML serialization engine: the embedded datasource.                      *)
(***************************************************************************)
RECURSIVE Sets(_, _)
\* e.set(k, v) for each pair of pairs, in order.
Sets(e, pairs) ==
    IF pairs = <<>> THEN e
    ELSE Sets(Set(e, Head(pairs)[1], Head(pairs)[2]), Tail(pairs))

\* Metadata that aggregates every column that is not a dimension with Sum.
ColumnMetadataSumUnlessDimension(column, ordinal) ==
    SubElements(Set(Element("metadata-record"), "class", "column"),
        <<Leaf("remote-name", column.name),
          Leaf("remote-type", _get_tableau_data_type(column.data_type)),
          Leaf("local-name", "[" \o column.name \o "]"),
          Leaf("parent-name", "[" \o column.name \o "]"),
          Leaf("remote-alias", column.name),
          Leaf("ordinal", ToString(ordinal)),
          Leaf("local-type", _get_tableau_data_type(column.data_type)),
          Leaf("aggregation",
               IF column.recommended_role = "dimension" THEN "Count" ELSE "Sum"),
          Leaf("contains-null", IF column.null_count > 0 THEN "true" ELSE "false")>>)

_add_column_metadata(column, ordinal) ==
    SubElements(Set(Element("metadata-record"), "class", "column"),
        <<Leaf("remote-name", column.name),
          Leaf("remote-type", _get_tableau_data_type(column.data_type)),
          Leaf("local-name", "[" \o column.name \o "]"),
          Leaf("parent-name", "[" \o column.name \o "]"),
          Leaf("remote-alias", column.name),
          Leaf("ordinal", ToString(ordinal)),
          Leaf("local-type", _get_tableau_data_type(column.data_type)),
          Leaf("aggregation",
               IF column.recommended_role = "measure" THEN "Sum" ELSE "Count"),
          Leaf("contains-null", IF column.null_count > 0 THEN "true" ELSE "false")>>)

\* Whether obj[key] is defined for the object.  The elements of
\* DatasetSchema.calculated_fields are CalculatedFieldSpec models (pydantic
\* turns a dict given for one into the model), and BaseModel has no __getitem__.
Subscriptable(obj) == FALSE

\* calc_field.get('role', default) of a mapping.
GetRole(calc_field, default) ==
    IF "role" \in DOMAIN calc_field THEN calc_field.role ELSE default

\* Raises TypeError at calc_field['name'], its first statement that reads
\* the field; the element built otherwise is the one a mapping would give.
_add_calculated_field_metadata(calc_field, ordinal) ==
    IF ~Subscriptable(calc_field)
    THEN Raise("TypeError", "'CalculatedFieldSpec' object is not subscriptable")
    ELSE SubElements(Set(Element("metadata-record"), "class", "column"),
        <<Leaf("remote-name", calc_field.name),
          Leaf("remote-type", _get_tableau_data_type(calc_field.data_type)),
          Leaf("local-name", "[" \o calc_field.name \o "]"),
          Leaf("parent-name", "[" \o calc_field.name \o "]"),
          Leaf("remote-alias", calc_field.name),
          Leaf("ordinal", ToString(ordinal)),
          Leaf("local-type", _get_tableau_data_type(calc_field.data_type)),
          Leaf("aggregation",
               IF GetRole(calc_field, "measure") = "measure" THEN "Sum" ELSE "Count"),
          Leaf("contains-null", "false"),
          Sets(Element("calculation"),
               <<<<"formula", calc_field.formula>>, <<"type", "tableau">>>>)>>)

ColumnInstance(column) ==
    Sets(Element("column-instance"),
         <<<<"column", "[" \o column.name \o "]">>,
           <<"derivation", "None">>,
           <<"name", "[" \o column.name \o "]">>,
           <<"pivot", "key">>,
           <<"type", IF column.recommended_role = "dimension"
                     THEN "nominal" ELSE "quantitative">>>>)

CalcColumnInstance(calc_field) ==
    IF ~Subscriptable(calc_field)
    THEN Raise("TypeError", "'CalculatedFieldSpec' object is not subscriptable")
    ELSE Sets(Element("column-instance"),
         <<<<"column", "[" \o calc_field.name \o "]">>,
           <<"derivation", "Calculation">>,
           <<"name", "[" \o calc_field.name \o "]">>,
           <<"pivot", "key">>,
           <<"type", IF GetRole(calc_field, "dimension") = "dimension"
                     THEN "nominal" ELSE "quantitative">>>>)

DatasourceConnection(dataset_schema) ==
    SubElements(Set(Element("connection"), "class", "federated"),
        <<SubElements(Element("named-connections"),
            <<SubElements(
                Sets(Element("named-connection"),
                     <<<<"caption", dataset_schema.name>>, <<"name", "textscan">>>>),
                <<Sets(Element("connection"),
                       <<<<"class", "textscan">>,
                         <<"directory", output_directory>>,
                         <<"filename", dataset_schema.name \o ".csv">>,
                         <<"password", "">>,
                         <<"server", "">>>>)>>)>>),
          Sets(Element("relation"),
               <<<<"connection", "textscan">>,
                 <<"name", dataset_schema.name \o ".csv">>,
                 <<"table", "[" \o dataset_schema.name \o ".csv]">>,
                 <<"type", "table">>>>)>>)

\* The datasource element for the identifier _generate_id returned, or the
\* exception of the first statement that raises.
_create_datasource_element(dataset_schema, id) ==
    LET columns == dataset_schema.columns
        calcs == dataset_schema.calculated_fields
        datasource ==
            Sets(Element("datasource"),
                 <<<<"caption", dataset_schema.name>>,
                   <<"name", "federated." \o id>>,
                   <<"version", "18.1">>>>)
        column_records ==
            [p \in 1..Len(columns) |-> _add_column_metadata(columns[p], p - 1)]
        calc_records ==
            [q \in 1..Len(calcs) |->
                _add_calculated_field_metadata(calcs[q], Len(columns) + (q - 1))]
        instances == [p \in 1..Len(columns) |-> ColumnInstance(columns[p])]
        calc_instances == [q \in 1..Len(calcs) |-> CalcColumnInstance(calcs[q])]
    IN  IF AnyRaise(calc_records) THEN FirstRaise(calc_records)
        ELSE IF AnyRaise(calc_instances) THEN FirstRaise(calc_instances)
        ELSE SubElements(datasource,
                <<DatasourceConnection(dataset_schema),
                  SubElements(Element("metadata-records"),
                              column_records \o calc_records),
                  SubElements(Element("column-instances"),
                              instances \o calc_instances)>>)

(***************************************************************************)
(* XML serialization engine: worksheets.                                   *)
(***************************************************************************)
\* The truth value of an Optional[str]: None and "" are false.
Truthy(v) == v \notin {None, ""}

\* An encoding that writes the aggregation as it is given.
EncodingAggregationAsGiven(shelf, field_name, datasource, aggregation) ==
    LET column == Leaf("column",
                       "[" \o Get(datasource, "name") \o "].[" \o field_name \o "]")
    IN  SubElements(Element(shelf),
            <<IF Truthy(aggregation) /\ aggregation # "none"
              THEN Set(column, "aggregation", aggregation)
              ELSE column>>)

\* if aggregation and aggregation != "none": aggregation.title()
_add_encoding(shelf, field_name, datasource, aggregation) ==
    LET column == Leaf("column",
                       "[" \o Get(datasource, "name") \o "].[" \o field_name \o "]")
    IN  SubElements(Element(shelf),
            <<IF Truthy(aggregation) /\ aggregation # "none"
              THEN Set(column, "aggregation", Title(aggregation))
              ELSE column>>)

_add_visualization_elements(viz_spec, datasource) ==
    LET rows == [i \in 1..Len(viz_spec.y_axis) |->
                    _add_encoding("rows", viz_spec.y_axis[i], datasource,
                                  viz_spec.aggregation_type)]
        columns == [i \in 1..Len(viz_spec.x_axis) |->
                    _add_encoding("columns", viz_spec.x_axis[i], datasource, "none")]
        color == IF Truthy(viz_spec.color_field)
                 THEN <<_add_encoding("color", viz_spec.color_field, datasource, "none")>>
                 ELSE <<>>
        size == IF Truthy(viz_spec.size_field)
                THEN <<_add_encoding("size", viz_spec.size_field, datasource,
                                     viz_spec.aggregation_type)>>
                ELSE <<>>
    IN  <<Set(Element("aggregation"), "value", "true"),
          SubElements(Element("panes"),
            <<SubElements(
                Set(Element("pane"), "selection-relaxation-option",
                    "selection-relaxation-allow"),
                <<Set(Element("view"), "name", viz_spec.title),
                  Set(Element("mark"), "class",
                      _get_tableau_mark_type(viz_spec.chart_type)),
                  SubElements(Element("encodings"),
                              rows \o columns \o color \o size)>>)>>)>>

_add_worksheet_style(worksheet_spec) ==
    SubElements(Element("layout-options"),
        <<SubElements(Element("title"),
            <<SubElements(Element("formatted-text"),
                <<Leaf("run", worksheet_spec.visualization.title)>>)>>)>>)

\* A worksheet that refers to the datasource by its caption alone.
WorksheetElementByCaption(worksheet_spec, datasource) ==
    LET datasource_ref ==
            Sets(Element("datasource"),
                 <<<<"caption", Get(datasource, "caption")>>,
                   <<"name", Get(datasource, "caption")>>>>)
        view ==
            SubElements(Element("view"),
                <<SubElements(Element("datasources"), <<datasource_ref>>)>>
                \o _add_visualization_elements(worksheet_spec.visualization,
                                               datasource))
        table ==
            SubElements(
                Sets(Element("table"),
                     <<<<"name", worksheet_spec.name>>, <<"show-empty", "true">>>>),
                <<view>>)
    IN  SubElements(Set(Element("worksheet"), "name", worksheet_spec.name),
                    <<table, _add_worksheet_style(worksheet_spec)>>)

_create_worksheet_element(worksheet_spec, datasource) ==
    LET datasource_ref ==
            Sets(Element("datasource"),
                 <<<<"caption", Get(datasource, "caption")>>,
                   <<"name", Get(datasource, "name")>>>>)
        view ==
            SubElements(Element("view"),
                <<SubElements(Element("datasources"), <<datasource_ref>>)>>
                \o _add_visualization_elements(worksheet_spec.visualization,
                                               datasource))
        table ==
            SubElements(
                Sets(Element("table"),
                     <<<<"name", worksheet_spec.name>>, <<"show-empty", "true">>>>),
                <<view>>)
    IN  SubElements(Set(Element("worksheet"), "name", worksheet_spec.name),
                    <<table, _add_worksheet_style(worksheet_spec)>>)

(***************************************************************************)
(* XML serialization engine: dashboards and windows.                       *)
(***************************************************************************)
\* A grid that fills its columns top to bottom.
ZonePropertiesColumnMajor(zone, worksheet, index, total) ==
    LET cols == IF total > GridColumns THEN GridColumns ELSE total
        rows == (total + cols - 1) \div cols
        col == index \div rows
        row == index % rows
    IN  SubElements(
            Sets(zone, <<<<"x", ToString(col * ZoneWidth)>>,
                         <<"y", ToString(row * ZoneHeight)>>,
                         <<"w", ToString(ZoneWidth)>>,
                         <<"h", ToString(ZoneHeight)>>>>),
            <<Set(Element("worksheet"), "name", worksheet.name)>>)

_add_zone_properties(zone, worksheet, index, total) ==
    LET cols == IF total > GridColumns THEN GridColumns ELSE total
        rows == (total + cols - 1) \div cols
        col == index % cols
        row == index \div cols
    IN  SubElements(
            Sets(zone, <<<<"x", ToString(col * ZoneWidth)>>,
                         <<"y", ToString(row * ZoneHeight)>>,
                         <<"w", ToString(ZoneWidth)>>,
                         <<"h", ToString(ZoneHeight)>>>>),
            <<Set(Element("worksheet"), "name", worksheet.name)>>)

\* A serializer that places the zones of a grid layout in the columns the
\* layout asks for.
DashboardElementHonoringGrid(dashboard_spec) ==
    LET worksheets == dashboard_spec.worksheets
        layout == dashboard_spec.layout
        zones ==
            [p \in 1..Len(worksheets) |->
                LET zone == _add_zone_properties(
                                Sets(Element("zone"),
                                     <<<<"id", ToString(p - 1)>>,
                                       <<"type", "layout-basic">>>>),
                                worksheets[p], p - 1, Len(worksheets))
                IN  IF layout.layout_type = "grid"
                    THEN Sets(zone,
                            <<<<"x", ToString(((p - 1) % layout.columns) * ZoneWidth)>>,
                              <<"y", ToString(((p - 1) \div layout.columns) * ZoneHeight)>>>>)
                    ELSE zone]
    IN  SubElements(Set(Element("dashboard"), "name", dashboard_spec.name),
            <<Sets(Element("size"),
                   <<<<"maxheight", ToString(dashboard_spec.dimensions.height)>>,
                     <<"maxwidth", ToString(dashboard_spec.dimensions.width)>>>>),
              SubElements(Element("view"),
                <<SubElements(Element("zones"), zones),
                  SubElements(Element("devicelayouts"),
                    <<Sets(Element("devicelayout"),
                           <<<<"auto-generated", "true">>, <<"name", "Phone">>>>)>>)>>)>>)

_create_dashboard_element(dashboard_spec) ==
    LET worksheets == dashboard_spec.worksheets
        zones ==
            [p \in 1..Len(worksheets) |->
                _add_zone_properties(
                    Sets(Element("zone"),
                         <<<<"id", ToString(p - 1)>>, <<"type", "layout-basic">>>>),
                    worksheets[p], p - 1, Len(worksheets))]
    IN  SubElements(Set(Element("dashboard"), "name", dashboard_spec.name),
            <<Sets(Element("size"),
                   <<<<"maxheight", ToString(dashboard_spec.dimensions.height)>>,
                     <<"maxwidth", ToString(dashboard_spec.dimensions.width)>>>>),
              SubElements(Element("view"),
                <<SubElements(Element("zones"), zones),
                  SubElements(Element("devicelayouts"),
                    <<Sets(Element("devicelayout"),
                           <<<<"auto-generated", "true">>, <<"name", "Phone">>>>)>>)>>)>>)

WindowCards ==
    SubElements(Element("cards"),
        <<SubElements(Set(Element("edge"), "name", "left"),
            <<SubElements(Set(Element("strip"), "size", "160"),
                <<Set(Element("card"), "type", "data")>>)>>)>>)

\* dashboards[0].worksheets[0].name if dashboards else "Sheet1": IndexError
\* when the first dashboard has no worksheet.
_create_windows_element(workbook_spec) ==
    IF workbook_spec.dashboards # <<>> /\ workbook_spec.dashboards[1].worksheets = <<>>
    THEN Raise("IndexError", "list index out of range")
    ELSE SubElements(
            Sets(Element("window"),
                 <<<<"class", "worksheet">>,
                   <<"maximized", "true">>,
                   <<"name",
                     IF workbook_spec.dashboards # <<>>
                     THEN workbook_spec.dashboards[1].worksheets[1].name
                     ELSE "Sheet1">>>>),
            <<WindowCards>>)

(***************************************************************************)
(* XML serialization engine: the two documents.                            *)
(***************************************************************************)
RECURSIVE Reparse(_)
\* tostring, then minidom.parseString: an element whose text is the empty
\* string is written without text and comes back with none.
Reparse(e) ==
    [tag |-> e.tag,
     attrs |-> e.attrs,
     text |-> IF e.text = "" THEN None ELSE e.text,
     kids |-> [i \in DOMAIN e.kids |-> Reparse(e.kids[i])]]

\* reparsed.toprettyxml(indent="  "): the XML declaration minidom writes,
\* then the tree, each element on a line of its own.
PrettyXml(root) ==
    [kind |-> "xml",
     declaration |-> "<?xml version=\"1.0\" ?>",
     indent |-> "  ",
     root |-> Reparse(root)]

RECURSIVE AllWorksheets(_)
\* for dashboard in dashboards: for worksheet in dashboard.worksheets
AllWorksheets(dashboards) ==
    IF dashboards = <<>> THEN <<>>
    ELSE Head(dashboards).worksheets \o AllWorksheets(Tail(dashboards))

\* A serializer that adds the dashboards before the worksheets.
WorkbookXmlDashboardsFirst(workbook_spec, request, id) ==
    LET workbook ==
            Sets(Element("workbook"),
                 <<<<"version", tableau_version>>,
                   <<"build-version", build_version>>,
                   <<"source-build", build_version>>>>)
        repository ==
            Sets(Element("repository-location"),
                 <<<<"id", "TWB Repository">>,
                   <<"path", workbook_spec.name \o ".twb">>>>)
        datasource == _create_datasource_element(request.dataset_schema, id)
        sheets == AllWorksheets(workbook_spec.dashboards)
        worksheets ==
            [i \in DOMAIN sheets |-> _create_worksheet_element(sheets[i], datasource)]
        dashboards ==
            [i \in DOMAIN workbook_spec.dashboards |->
                _create_dashboard_element(workbook_spec.dashboards[i])]
        window == _create_windows_element(workbook_spec)
    IN  IF IsRaise(datasource) THEN datasource
        ELSE IF IsRaise(window) THEN window
        ELSE PrettyXml(SubElements(workbook,
                <<Element("preferences"),
                  repository,
                  SubElements(Element("datasources"), <<datasource>>),
                  SubElements(Element("dashboards"), dashboards),
                  SubElements(Element("worksheets"), worksheets),
                  SubElements(Element("windows"), <<window>>)>>))

\* The workbook document for the identifier _generate_id returned, or the
\* exception of the first statement that raises.
_generate_workbook_xml(workbook_spec, request, id) ==
    LET workbook ==
            Sets(Element("workbook"),
                 <<<<"version", tableau_version>>,
                   <<"build-version", build_version>>,
                   <<"source-build", build_version>>>>)
        repository ==
            Sets(Element("repository-location"),
                 <<<<"id", "TWB Repository">>,
                   <<"path", workbook_spec.name \o ".twb">>>>)
        datasource == _create_datasource_element(request.dataset_schema, id)
        sheets == AllWorksheets(workbook_spec.dashboards)
        worksheets ==
            [i \in DOMAIN sheets |-> _create_worksheet_element(sheets[i], datasource)]
        dashboards ==
            [i \in DOMAIN workbook_spec.dashboards |->
                _create_dashboard_element(workbook_spec.dashboards[i])]
        window == _create_windows_element(workbook_spec)
    IN  IF IsRaise(datasource) THEN datasource
        ELSE IF IsRaise(window) THEN window
        ELSE PrettyXml(SubElements(workbook,
                <<Element("preferences"),
                  repository,
                  SubElements(Element("datasources"), <<datasource>>),
                  SubElements(Element("worksheets"), worksheets),
                  SubElements(Element("dashboards"), dashboards),
                  SubElements(Element("windows"), <<window>>)>>))

_generate_datasource_xml(dataset_schema) ==
    PrettyXml(SubElements(
        Sets(Element("datasource"),
             <<<<"formatted-name", dataset_schema.name>>,
               <<"inline", "true">>,
               <<"source-platform", "win">>,
               <<"version", "18.1">>>>),
        <<Sets(Element("connection"),
               <<<<"class", "textscan">>,
                 <<"directory", output_directory>>,
                 <<"filename", dataset_schema.name \o ".csv">>>>)>>))

(***************************************************************************)
(* Sample CSV.  A CSV document is its records in order, each the sequence  *)
(* of the cell texts csv.writer writes; quoting keeps a cell in its record.*)
(***************************************************************************)
Min(a, b) == IF a < b THEN a ELSE b

DaysInMonth == <<31, 28, 31, 30, 31, 30, 31, 31, 30, 31, 30, 31>>

TwoDigits(n) == IF n < 10 THEN "0" \o ToString(n) ELSE ToString(n)

RECURSIVE DateOf2023(_, _)
\* (datetime(2023, 1, 1) + timedelta(days)).strftime("%Y-%m-%d"), within 2023.
DateOf2023(month, days) ==
    IF days < DaysInMonth[month]
    THEN "2023-" \o TwoDigits(month) \o "-" \o TwoDigits(days + 1)
    ELSE DateOf2023(month + 1, days - DaysInMonth[month])

\* low: whether the random source returns the least value of each draw
\* (otherwise the greatest).
_generate_synthetic_value(column, index, low) ==
    CASE column.data_type = "integer" -> IF low THEN "1" ELSE "1000"
      [] column.data_type = "float" -> IF low THEN "0.0" ELSE "1000.0"
      [] column.data_type = "string" -> column.name \o "_" \o ToString(index)
      [] column.data_type = "categorical" ->
            IF low THEN "Category A" ELSE "Category D"
      [] column.data_type = "datetime" -> DateOf2023(1, index)
      [] column.data_type = "boolean" -> IF low THEN "True" ELSE "False"
      [] OTHER -> "Value_" \o ToString(index)

\* A generator that writes total_rows rows whatever their number.
SampleCsvUncapped(dataset_schema, low) ==
    LET columns == dataset_schema.columns
        headers == [c \in DOMAIN columns |-> columns[c].name]
    IN  [kind |-> "csv",
         rows |-> <<headers>> \o
            [r \in 1..dataset_schema.total_rows |->
                [c \in DOMAIN columns |->
                    IF columns[c].sample_values # <<>>
                    THEN columns[c].sample_values[
                            ((r - 1) % Len(columns[c].sample_values)) + 1]
                    ELSE _generate_synthetic_value(columns[c], r - 1, low)]]]

\* for i in range(min(100, dataset_schema.total_rows)): row r is i = r - 1.
_generate_sample_csv(dataset_schema, low) ==
    LET columns == dataset_schema.columns
        headers == [c \in DOMAIN columns |-> columns[c].name]
    IN  [kind |-> "csv",
         rows |-> <<headers>> \o
            [r \in 1..Min(SampleRowLimit, dataset_schema.total_rows) |->
                [c \in DOMAIN columns |->
                    IF columns[c].sample_values # <<>>
                    THEN columns[c].sample_values[
                            ((r - 1) % Len(columns[c].sample_values)) + 1]
                    ELSE _generate_synthetic_value(columns[c], r - 1, low)]]]

\* uuid4-derived tokens _generate_id can return.
GeneratedIds == {"A1B2C3D4", "0F9E8D7C"}

(***************************************************************************)
(* The filesystem under output_directory and the calls of                  *)
(* generate_workbook on one generator.                                     *)
(***************************************************************************)
\* Number of generate_workbook calls the model follows.
NumCalls == 2

Calls == 1..NumCalls

Path(filename) == output_directory \o "/" \o filename

TwbPath(name) == Path(name \o ".twb")
TwbxPath(name) == Path(name \o ".twbx")

\* The files of the output directory the model follows: the outputs for
\* each dataset name, and the CSV file the datasource connection names.
Files ==
    UNION {{TwbPath(n \o "_Dashboard"), TwbxPath(n \o "_Dashboard"),
            Path(n \o ".csv")} : n \in DatasetNames}

\* A file is its kind and the pieces written to it, in order: the strings
\* written to a text file, the entries of a ZIP archive.  writer is the call
\* that wrote the piece (0: before any call).
Absent == [kind |-> "absent", content |-> <<>>]

OldFile ==
    [kind |-> "text",
     content |-> <<[name |-> None, data |-> [kind |-> "old"], writer |-> 0]>>]

\* open(path, 'w') and ZipFile(path, 'w'): created, or truncated.
Created(kind) == [kind |-> kind, content |-> <<>>]

Piece(name, data, c) == [name |-> name, data |-> data, writer |-> c]

\* The bytes a write leaves unwritten when it lands beyond the end of the
\* file (the file was truncated under the handle): the system reads zeros.
Hole == Piece(None, [kind |-> "hole"], 0)

Max(a, b) == IF a > b THEN a ELSE b

\* The content after a write at position pos (counted in pieces): each handle
\* writes at its own position, whatever other handles did to the file.
WriteAt(content, pos, piece) ==
    [i \in 1..Max(Len(content), pos + 1) |->
        IF i = pos + 1 THEN piece
        ELSE IF i <= Len(content) THEN content[i]
        ELSE Hole]

Unset == [kind |-> "unset"]

VARIABLES
    fs,             \* file path -> file
    pc,             \* call -> where the call is
    request,        \* call -> its GenerationRequest
    workbook_spec,  \* call -> local workbook_spec
    workbook_xml,   \* call -> local workbook_xml
    datasource_xml, \* call -> local datasource_xml
    handle,         \* call -> the file or archive handle of the packaging layer
    exception,      \* call -> the exception raised inside the try block
    result,         \* call -> the GenerationResult returned
    propagated,     \* call -> the exception that left generate_workbook
    models,         \* the constructions of data model objects so far
    returned        \* the values the serializer's methods returned when
                    \* called on their own

vars ==
    <<fs, pc, request, workbook_spec, workbook_xml, datasource_xml, handle,
      exception, result, propagated, models, returned>>

NoHandle == [path |-> None, state |-> "none"]

NoException == [exc |-> None, message |-> None]

Init ==
    /\ \E existing \in {{}, Files} :
        fs = [f \in Files |-> IF f \in existing THEN OldFile ELSE Absent]
    /\ pc = [c \in Calls |-> "idle"]
    /\ request = [c \in Calls |-> Unset]
    /\ workbook_spec = [c \in Calls |-> Unset]
    /\ workbook_xml = [c \in Calls |-> Unset]
    /\ datasource_xml = [c \in Calls |-> Unset]
    /\ handle = [c \in Calls |-> NoHandle]
    /\ exception = [c \in Calls |-> NoException]
    /\ result = [c \in Calls |-> Unset]
    /\ propagated = [c \in Calls |-> None]
    /\ models = {}
    /\ returned = {}

GenerationResult(spec, file_path, success, error_message) ==
    [workbook_spec |-> spec,
     file_path |-> file_path,
     warnings |-> <<>>,
     success |-> success,
     error_message |-> error_message]

\* A handler that catches I/O errors only.
CatchesOSErrorOnly(exc_type) == exc_type = "OSError"

\* except Exception as e
Catches(exc_type) == exc_type \in ExceptionTypes

\* A failure result that carries no message.
FailureResultNoMessage(e) == GenerationResult(FailedWorkbookSpec, "", FALSE, None)

\* The result the except clause builds; error_message=str(e).
FailureResult(e) == GenerationResult(FailedWorkbookSpec, "", FALSE, e.message)

\* The except clause of generate_workbook for exception e of call c; leaves
\* fs and handle to the action.
Except(c, e) ==
    /\ pc' = [pc EXCEPT ![c] = "done"]
    /\ exception' = [exception EXCEPT ![c] = e]
    /\ IF Catches(e.exc)
       THEN /\ result' = [result EXCEPT ![c] = FailureResult(e)]
            /\ UNCHANGED propagated
       ELSE /\ propagated' = [propagated EXCEPT ![c] = e.exc]
            /\ UNCHANGED result

MemoryError == Raise("MemoryError", "")

DiskError == Raise("OSError", "[Errno 28] No space left on device")

\* generate_workbook(request) is called.
Call(c, r) ==
    /\ pc[c] = "idle"
    /\ request' = [request EXCEPT ![c] = r]
    /\ pc' = [pc EXCEPT ![c] = "spec"]
    /\ UNCHANGED <<returned, models, fs, workbook_spec, workbook_xml, datasource_xml, handle,
                   exception, result, propagated>>

\* A generator that creates its output file before it builds anything.
CreateWorkbookSpecificationAfterOpen(c) ==
    /\ pc[c] = "spec"
    /\ workbook_spec' =
            [workbook_spec EXCEPT ![c] = _create_workbook_specification(request[c])]
    /\ fs' = [fs EXCEPT ![TwbPath(request[c].dataset_schema.name \o "_Dashboard")] =
                Created("text")]
    /\ pc' = [pc EXCEPT ![c] = "workbook_xml"]
    /\ UNCHANGED <<returned, models, request, workbook_xml, datasource_xml, handle,
                   exception, result, propagated>>

\* workbook_spec = self._create_workbook_specification(request)
CreateWorkbookSpecification(c) ==
    /\ pc[c] = "spec"
    /\ \/ /\ workbook_spec' =
                [workbook_spec EXCEPT ![c] = _create_workbook_specification(request[c])]
          /\ pc' = [pc EXCEPT ![c] = "workbook_xml"]
          /\ UNCHANGED <<exception, result, propagated>>
       \/ /\ Except(c, MemoryError)
          /\ UNCHANGED workbook_spec
    /\ UNCHANGED <<returned, models, fs, request, workbook_xml, datasource_xml, handle>>

\* A serializer that stamps the build of the document with the identifier
\* of the run.
GenerateWorkbookXmlStamped(c) ==
    /\ pc[c] = "workbook_xml"
    /\ \E id \in GeneratedIds :
        LET xml == _generate_workbook_xml(workbook_spec[c], request[c], id)
        IN  IF IsRaise(xml)
            THEN /\ Except(c, xml)
                 /\ UNCHANGED workbook_xml
            ELSE /\ workbook_xml' =
                        [workbook_xml EXCEPT
                            ![c] = [xml EXCEPT !.root =
                                        Set(@, "source-build", build_version \o "." \o id)]]
                 /\ pc' = [pc EXCEPT ![c] = "datasource_xml"]
                 /\ UNCHANGED <<exception, result, propagated>>
    /\ UNCHANGED <<returned, models, fs, request, workbook_spec, datasource_xml, handle>>

\* workbook_xml = self._generate_workbook_xml(workbook_spec, request)
GenerateWorkbookXml(c) ==
    /\ pc[c] = "workbook_xml"
    /\ \E id \in GeneratedIds :
        LET xml == _generate_workbook_xml(workbook_spec[c], request[c], id)
        IN  IF IsRaise(xml)
            THEN /\ Except(c, xml)
                 /\ UNCHANGED workbook_xml
            ELSE /\ workbook_xml' = [workbook_xml EXCEPT ![c] = xml]
                 /\ pc' = [pc EXCEPT ![c] = "datasource_xml"]
                 /\ UNCHANGED <<exception, result, propagated>>
    /\ UNCHANGED <<returned, models, fs, request, workbook_spec, datasource_xml, handle>>

\* A serializer that puts the columns of the schema it is given in reverse
\* order before it writes them.
GenerateDatasourceXmlReversingColumns(c) ==
    /\ pc[c] = "datasource_xml"
    /\ LET columns == request[c].dataset_schema.columns
           reversed == [i \in DOMAIN columns |-> columns[Len(columns) + 1 - i]]
       IN  /\ request' = [request EXCEPT ![c].dataset_schema.columns = reversed]
           /\ datasource_xml' =
                [datasource_xml EXCEPT
                    ![c] = _generate_datasource_xml(request'[c].dataset_schema)]
    /\ pc' = [pc EXCEPT ![c] = "package"]
    /\ UNCHANGED <<returned, models, fs, workbook_spec, workbook_xml, handle,
                   exception, result, propagated>>

\* datasource_xml = self._generate_datasource_xml(request.dataset_schema)
GenerateDatasourceXml(c) ==
    /\ pc[c] = "datasource_xml"
    /\ \/ /\ datasource_xml' =
                [datasource_xml EXCEPT
                    ![c] = _generate_datasource_xml(request[c].dataset_schema)]
          /\ pc' = [pc EXCEPT ![c] = "package"]
          /\ UNCHANGED <<exception, result, propagated>>
       \/ /\ Except(c, MemoryError)
          /\ UNCHANGED datasource_xml
    /\ UNCHANGED <<returned, models, fs, request, workbook_spec, workbook_xml, handle>>

(***************************************************************************)
(* Packaging layer.  Each action is one operation on the file: the open,   *)
(* one write, the close that ends the with block.  A write that raises     *)
(* leaves the with block, which closes the handle, and reaches the except  *)
(* clause of generate_workbook.                                            *)
(***************************************************************************)
\* A handle opened with mode 'w' starts at position 0.
OpenHandle(path) == [path |-> path, state |-> "open", pos |-> 0]

ClosedHandle(path) == [path |-> path, state |-> "closed"]

\* A with block that leaves its handle open when its body raises.
RaiseInWithLeavesOpen(c, e) ==
    /\ Except(c, e)
    /\ UNCHANGED <<fs, handle>>

\* An exception raised inside the with block of call c.
RaiseInWith(c, e) ==
    /\ Except(c, e)
    /\ handle' = [handle EXCEPT ![c] = ClosedHandle(handle[c].path)]
    /\ UNCHANGED fs

\* A write that always lands at the end of the file (a handle opened for
\* appending).
WriteAppending(c, name, data) ==
    /\ fs' = [fs EXCEPT ![handle[c].path].content = Append(@, Piece(name, data, c))]
    /\ handle' = [handle EXCEPT ![c].pos = @ + 1]
    /\ UNCHANGED <<exception, result, propagated>>

\* A write through the handle of call c: at the position of the handle,
\* which moves past the piece.
Write(c, name, data) ==
    /\ fs' = [fs EXCEPT ![handle[c].path].content =
                WriteAt(@, handle[c].pos, Piece(name, data, c))]
    /\ handle' = [handle EXCEPT ![c].pos = @ + 1]
    /\ UNCHANGED <<exception, result, propagated>>

\* A text file opened for appending.
OpenTwbAppending(c) ==
    /\ pc[c] = "package"
    /\ request[c].output_format # "twbx"
    /\ LET file_path == TwbPath(workbook_spec[c].name)
       IN  /\ fs' = [fs EXCEPT ![file_path] =
                        IF @.kind = "absent" THEN Created("text") ELSE @]
           /\ handle' = [handle EXCEPT ![c] =
                            [OpenHandle(file_path) EXCEPT
                                !.pos = Len(fs[file_path].content)]]
           /\ pc' = [pc EXCEPT ![c] = "twb_write"]
           /\ UNCHANGED <<exception, result, propagated>>
    /\ UNCHANGED <<returned, models, request, workbook_spec, workbook_xml, datasource_xml>>

\* _create_twb_file: with open(file_path, 'w', encoding='utf-8') as f
OpenTwb(c) ==
    /\ pc[c] = "package"
    /\ request[c].output_format # "twbx"
    /\ LET file_path == TwbPath(workbook_spec[c].name)
       IN  \/ /\ fs' = [fs EXCEPT ![file_path] = Created("text")]
              /\ handle' = [handle EXCEPT ![c] = OpenHandle(file_path)]
              /\ pc' = [pc EXCEPT ![c] = "twb_write"]
              /\ UNCHANGED <<exception, result, propagated>>
           \/ /\ Except(c, Raise("OSError", "[Errno 13] Permission denied"))
              /\ UNCHANGED <<fs, handle>>
    /\ UNCHANGED <<returned, models, request, workbook_spec, workbook_xml, datasource_xml>>

\* f.write(workbook_xml)
WriteTwb(c) ==
    /\ pc[c] = "twb_write"
    /\ \/ /\ Write(c, None, workbook_xml[c])
          /\ pc' = [pc EXCEPT ![c] = "twb_close"]
       \/ RaiseInWith(c, DiskError)
    /\ UNCHANGED <<returned, models, request, workbook_spec, workbook_xml, datasource_xml>>

\* The end of the with block of _create_twb_file; return file_path.
CloseTwb(c) ==
    /\ pc[c] = "twb_close"
    /\ handle' = [handle EXCEPT ![c] = ClosedHandle(handle[c].path)]
    /\ pc' = [pc EXCEPT ![c] = "return"]
    /\ UNCHANGED <<returned, models, fs, request, workbook_spec, workbook_xml, datasource_xml,
                   exception, result, propagated>>

\* An archive opened for appending.
OpenTwbxAppending(c) ==
    /\ pc[c] = "package"
    /\ request[c].output_format = "twbx"
    /\ LET file_path == TwbxPath(workbook_spec[c].name)
       IN  /\ fs' = [fs EXCEPT ![file_path] =
                        IF @.kind = "absent" THEN Created("zip") ELSE @]
           /\ handle' = [handle EXCEPT ![c] =
                            [OpenHandle(file_path) EXCEPT
                                !.pos = Len(fs[file_path].content)]]
           /\ pc' = [pc EXCEPT ![c] = "twbx_workbook"]
           /\ UNCHANGED <<exception, result, propagated>>
    /\ UNCHANGED <<returned, models, request, workbook_spec, workbook_xml, datasource_xml>>

\* _create_twbx_file: with zipfile.ZipFile(file_path, 'w', ZIP_DEFLATED) as zipf
OpenTwbx(c) ==
    /\ pc[c] = "package"
    /\ request[c].output_format = "twbx"
    /\ LET file_path == TwbxPath(workbook_spec[c].name)
       IN  \/ /\ fs' = [fs EXCEPT ![file_path] = Created("zip")]
              /\ handle' = [handle EXCEPT ![c] = OpenHandle(file_path)]
              /\ pc' = [pc EXCEPT ![c] = "twbx_workbook"]
              /\ UNCHANGED <<exception, result, propagated>>
           \/ /\ Except(c, Raise("OSError", "[Errno 13] Permission denied"))
              /\ UNCHANGED <<fs, handle>>
    /\ UNCHANGED <<returned, models, request, workbook_spec, workbook_xml, datasource_xml>>

\* zipf.writestr("workbook.twb", workbook_xml)
WriteWorkbookEntry(c) ==
    /\ pc[c] = "twbx_workbook"
    /\ \/ /\ Write(c, "workbook.twb", workbook_xml[c])
          /\ pc' = [pc EXCEPT ![c] = "twbx_datasource"]
       \/ RaiseInWith(c, DiskError)
    /\ UNCHANGED <<returned, models, request, workbook_spec, workbook_xml, datasource_xml>>

\* zipf.writestr("Data/Datasources/datasource.tds", datasource_xml), then
\* the test of request.include_sample_data.
WriteDatasourceEntry(c) ==
    /\ pc[c] = "twbx_datasource"
    /\ \/ /\ Write(c, "Data/Datasources/datasource.tds", datasource_xml[c])
          /\ pc' = [pc EXCEPT ![c] =
                        IF request[c].include_sample_data
                        THEN "twbx_sample" ELSE "twbx_close"]
       \/ RaiseInWith(c, DiskError)
    /\ UNCHANGED <<returned, models, request, workbook_spec, workbook_xml, datasource_xml>>

\* A packager that stores the sample data under a fixed entry name.
WriteSampleDataFixedName(c) ==
    /\ pc[c] = "twbx_sample"
    /\ \E low \in BOOLEAN :
        Write(c, "Data/sample.csv",
              _generate_sample_csv(request[c].dataset_schema, low))
    /\ pc' = [pc EXCEPT ![c] = "twbx_close"]
    /\ UNCHANGED <<returned, models, request, workbook_spec, workbook_xml, datasource_xml>>

\* A packager that also saves the sample data beside the archive, where the
\* datasource connection looks for it.
WriteSampleDataBesideArchive(c) ==
    /\ pc[c] = "twbx_sample"
    /\ \E low \in BOOLEAN :
        LET sample_data == _generate_sample_csv(request[c].dataset_schema, low)
            entry == "Data/" \o request[c].dataset_schema.name \o ".csv"
        IN  fs' = [fs EXCEPT
                    ![handle[c].path].content =
                        WriteAt(@, handle[c].pos, Piece(entry, sample_data, c)),
                    ![Path(request[c].dataset_schema.name \o ".csv")] =
                        [kind |-> "text",
                         content |-> <<Piece(None, sample_data, c)>>]]
    /\ handle' = [handle EXCEPT ![c].pos = @ + 1]
    /\ pc' = [pc EXCEPT ![c] = "twbx_close"]
    /\ UNCHANGED <<returned, models, request, workbook_spec, workbook_xml,
                   datasource_xml, exception, result, propagated>>

\* sample_data = self._generate_sample_csv(request.dataset_schema)
\* zipf.writestr(f"Data/{request.dataset_schema.name}.csv", sample_data)
WriteSampleData(c) ==
    /\ pc[c] = "twbx_sample"
    /\ \/ /\ \E low \in BOOLEAN :
                Write(c, "Data/" \o request[c].dataset_schema.name \o ".csv",
                      _generate_sample_csv(request[c].dataset_schema, low))
          /\ pc' = [pc EXCEPT ![c] = "twbx_close"]
       \/ RaiseInWith(c, DiskError)
    /\ UNCHANGED <<returned, models, request, workbook_spec, workbook_xml, datasource_xml>>

\* The end of the with block of _create_twbx_file; return file_path.
CloseTwbx(c) ==
    /\ pc[c] = "twbx_close"
    /\ handle' = [handle EXCEPT ![c] = ClosedHandle(handle[c].path)]
    /\ pc' = [pc EXCEPT ![c] = "return"]
    /\ UNCHANGED <<returned, models, fs, request, workbook_spec, workbook_xml, datasource_xml,
                   exception, result, propagated>>

\* return GenerationResult(workbook_spec=workbook_spec,
\*     file_path=str(file_path), ..., success=True, error_message=None)
ReturnResult(c) ==
    /\ pc[c] = "return"
    /\ result' = [result EXCEPT ![c] =
                    GenerationResult(workbook_spec[c], handle[c].path, TRUE, None)]
    /\ pc' = [pc EXCEPT ![c] = "done"]
    /\ UNCHANGED <<returned, models, fs, request, workbook_spec, workbook_xml, datasource_xml,
                   handle, exception, propagated>>

\* The steps of a call of generate_workbook after its entry.
Body(c) ==
    \/ CreateWorkbookSpecification(c)
    \/ GenerateWorkbookXml(c)
    \/ GenerateDatasourceXml(c)
    \/ OpenTwb(c)
    \/ WriteTwb(c)
    \/ CloseTwb(c)
    \/ OpenTwbx(c)
    \/ WriteWorkbookEntry(c)
    \/ WriteDatasourceEntry(c)
    \/ WriteSampleData(c)
    \/ CloseTwbx(c)
    \/ ReturnResult(c)

\* The steps of one call of generate_workbook.
Step(c) ==
    \/ \E r \in Requests : Call(c, r)
    \/ Body(c)

\* One call of generate_workbook on a new generator.
Next == Step(1)

Spec == Init /\ [][Next]_vars

(***************************************************************************)
(* Construction of data model objects.  pydantic validates the keyword     *)
(* arguments against the declared fields: a required field that is missing *)
(* or a value outside the declared range raises ValidationError and no     *)
(* object exists; otherwise the object has the given values and the        *)
(* defaults of the fields not given.  A float is a fraction [num, den].    *)
(***************************************************************************)
Given(kwargs, field) == field \in DOMAIN kwargs

ValidationError(field, problem) ==
    Raise("ValidationError", field \o ": " \o problem)

\* ge and le of an int field.
IntInRange(v, ge, le) == ge <= v /\ v <= le

\* ge and le of a float field.
FloatInRange(v, ge, le) == ge * v.den <= v.num /\ v.num <= le * v.den

\* A range check that tests the lower bound only.
KPISpecificationNoUpperBound(kwargs) ==
    LET priority == IF Given(kwargs, "priority") THEN kwargs.priority
                    ELSE PriorityDefault
    IN  IF priority < PriorityMin
        THEN ValidationError("priority", "out of range")
        ELSE [class |-> "KPISpecification",
              name |-> kwargs.name,
              description |-> kwargs.description,
              calculation |-> kwargs.calculation,
              target_value |-> None,
              format_string |-> "#,##0",
              priority |-> priority]

\* KPISpecification(**kwargs)
KPISpecification(kwargs) ==
    LET priority == IF Given(kwargs, "priority") THEN kwargs.priority
                    ELSE PriorityDefault
    IN  IF ~IntInRange(priority, PriorityMin, PriorityMax)
        THEN ValidationError("priority", "out of range")
        ELSE [class |-> "KPISpecification",
              name |-> kwargs.name,
              description |-> kwargs.description,
              calculation |-> kwargs.calculation,
              target_value |-> None,
              format_string |-> "#,##0",
              priority |-> priority]

\* DatasetSchema(**kwargs)
DatasetSchema(kwargs) ==
    IF ~Given(kwargs, "data_quality_score")
    THEN ValidationError("data_quality_score", "field required")
    ELSE IF ~FloatInRange(kwargs.data_quality_score, ScoreMin, ScoreMax)
    THEN ValidationError("data_quality_score", "out of range")
    ELSE [class |-> "DatasetSchema",
          name |-> kwargs.name,
          total_rows |-> kwargs.total_rows,
          total_columns |-> kwargs.total_columns,
          columns |-> kwargs.columns,
          data_quality_score |-> kwargs.data_quality_score,
          business_context |-> None,
          calculated_fields |-> <<>>]

\* ValidationResult(**kwargs): is_valid: bool = Field(...), the lists
\* default to [] and no validator relates the fields.
ValidationResult(kwargs) ==
    IF ~Given(kwargs, "is_valid")
    THEN ValidationError("is_valid", "field required")
    ELSE [class |-> "ValidationResult",
          is_valid |-> kwargs.is_valid,
          errors |-> IF Given(kwargs, "errors") THEN kwargs.errors ELSE <<>>,
          warnings |-> <<>>,
          suggestions |-> <<>>]

\* Keyword arguments callers can give.
KPIArguments ==
    {[name |-> "Revenue", description |-> "Total revenue",
      calculation |-> "SUM([col1])"]} \cup
    {[name |-> "Revenue", description |-> "Total revenue",
      priority |-> p, calculation |-> "SUM([col1])"] :
        p \in (PriorityMin - PriorityMargin)..(PriorityMax + PriorityMargin)}

\* -1/2, 0, 1/2, 1 and 3/2.
ScoreChoices == {[den |-> 2, num |-> n] : n \in -1..3}

SchemaArguments ==
    {[name |-> "Sales", total_rows |-> 3,
      columns |-> Window(ColumnCatalog, 1, 2), total_columns |-> 2]} \cup
    {[name |-> "Sales", total_rows |-> 3,
      columns |-> Window(ColumnCatalog, 1, 2), data_quality_score |-> q,
      total_columns |-> 2] :
        q \in ScoreChoices}

ErrorLists == {<<>>, <<"Missing column">>, <<"Missing column", "Malformed formula">>}

ValidationArguments ==
    {[errors |-> <<>>]} \cup
    {[is_valid |-> v] : v \in BOOLEAN} \cup
    {[is_valid |-> v, errors |-> e] : v \in BOOLEAN, e \in ErrorLists}

\* One construction: its class, its arguments and the object or the
\* ValidationError it gave.
\* class(**kwargs): the object, or the ValidationError raised.
New(class, kwargs) ==
    CASE class = "KPISpecification" -> KPISpecification(kwargs)
      [] class = "DatasetSchema" -> DatasetSchema(kwargs)
      [] class = "ValidationResult" -> ValidationResult(kwargs)

Construct(class, kwargs) ==
    /\ Cardinality(models) < MaxObjects
    /\ models' = models \cup {[class |-> class, kwargs |-> kwargs,
                                outcome |-> New(class, kwargs)]}
    /\ UNCHANGED <<returned, fs, pc, request, workbook_spec, workbook_xml,
                   datasource_xml, handle, exception, result, propagated>>

ConstructKPISpecification ==
    \E kwargs \in KPIArguments : Construct("KPISpecification", kwargs)

ConstructDatasetSchema ==
    \E kwargs \in SchemaArguments : Construct("DatasetSchema", kwargs)

ConstructValidationResult ==
    \E kwargs \in ValidationArguments : Construct("ValidationResult", kwargs)

\* The objects of a class that exist.
ObjectsOf(class) ==
    {made.outcome : made \in {m \in models : m.class = class /\ ~IsRaise(m.outcome)}}

RECURSIVE ByPriority(_)
\* The KPISpecifications of a set as a list, most important first.
ByPriority(kpis) ==
    IF kpis = {} THEN <<>>
    ELSE LET first == CHOOSE k \in kpis : \A other \in kpis : k.priority <= other.priority
         IN  <<first>> \o ByPriority(kpis \ {first})

\* generate_workbook is called with a request built from objects that
\* exist: a DatasetSchema, and the KPISpecifications as recommended_kpis.
CallConstructed(c) ==
    \E schema \in ObjectsOf("DatasetSchema"), f \in OutputFormats :
        Call(c, [dataset_schema |-> schema,
                 ai_analysis |->
                    [recommended_visualizations |-> Window(VizCatalog, 1, 3),
                     recommended_kpis |-> ByPriority(ObjectsOf("KPISpecification"))],
                 output_format |-> f,
                 include_sample_data |-> TRUE])

NextData ==
    \/ ConstructKPISpecification
    \/ ConstructDatasetSchema
    \/ ConstructValidationResult
    \/ CallConstructed(1)
    \/ Body(1)

SpecData == Init /\ [][NextData]_vars

(***************************************************************************)
(* Two successive calls on one generator: the second starts when the first *)
(* has returned.                                                           *)
(***************************************************************************)
\* Requests that differ in what decides the output path, and in whether
\* the archive carries sample data.
SuccessiveRequests ==
    {[BaseRequest EXCEPT !.dataset_schema.name = n,
                         !.output_format = f,
                         !.include_sample_data = s] :
        n \in DatasetNames, f \in OutputFormats, s \in BOOLEAN}

CallAfter(c, r) ==
    /\ \A b \in 1..(c - 1) : pc[b] = "done"
    /\ Call(c, r)

NextSeq ==
    \E c \in {1, 2} :
        \/ \E r \in SuccessiveRequests : CallAfter(c, r)
        \/ Body(c)

SpecSeq == Init /\ [][NextSeq]_vars

(***************************************************************************)
(* Two concurrent calls (two threads, or two processes on one output       *)
(* directory): their steps interleave, and nothing but the filesystem is   *)
(* shared.  Each write is one step; the pieces of a file stand for the     *)
(* byte ranges of the successive writes of a handle.                       *)
(***************************************************************************)
\* Requests for one dataset name.
ConcurrentRequests ==
    {[BaseRequest EXCEPT !.output_format = f, !.include_sample_data = s] :
        f \in OutputFormats, s \in BOOLEAN}

NextConc ==
    \E c \in {1, 2} :
        \/ \E r \in ConcurrentRequests : Call(c, r)
        \/ Body(c)

SpecConc == Init /\ [][NextConc]_vars

(***************************************************************************)
(* _create_dashboard_element called on its own, on dashboard               *)
(* specifications of every layout the data model accepts.                  *)
(***************************************************************************)
\* Most worksheets of a dashboard given to _create_dashboard_element.
MaxSheets == 5

\* Most calls whose return values are kept.
MaxReturned == 2

\* DashboardLayout objects: the default, a grid of one row, and free-form
\* positions for the first sheet.
LayoutChoices ==
    {DashboardLayout,
     [DashboardLayout EXCEPT !.layout_type = "grid", !.rows = 1, !.columns = 3],
     [DashboardLayout EXCEPT
        !.layout_type = "free_form",
        !.worksheet_positions = << <<"Sheet 1", [x |-> 500, y |-> 40]>> >>]}

\* The dashboard the specification builder makes for n visualizations, with
\* the layout given: DashboardSpec(..., worksheets=worksheets, layout=layout).
DashboardSpec(n, layout) ==
    [_create_workbook_specification(
        [BaseRequest EXCEPT !.ai_analysis.recommended_visualizations =
                                Window(VizCatalog, 1, n)]).dashboards[1]
     EXCEPT !.layout = layout]

DashboardSpecs ==
    {DashboardSpec(n, layout) : n \in 0..MaxSheets, layout \in LayoutChoices}

\* self._create_dashboard_element(dashboards, dashboard_spec): the element
\* added to the parent.
CreateDashboardElement ==
    /\ Cardinality(returned) < MaxReturned
    /\ \E dashboard_spec \in DashboardSpecs :
        returned' = returned \cup
            {[dashboard_spec |-> dashboard_spec,
              element |-> _create_dashboard_element(dashboard_spec)]}
    /\ UNCHANGED <<models, fs, pc, request, workbook_spec, workbook_xml,
                   datasource_xml, handle, exception, result, propagated>>

NextDashboard == CreateDashboardElement

SpecDashboard == Init /\ [][NextDashboard]_vars

(***************************************************************************)
(* Vocabulary of the properties.                                           *)
(***************************************************************************)
\* generate_workbook of call c has returned a GenerationResult.
Returned(c) == pc[c] = "done" /\ "success" \in DOMAIN result[c]

\* The try block of call c raised an exception.
Raised(c) == exception[c] # NoException

\* The exception came from the runtime or the operating system, not from
\* the request.
EnvironmentError(c) == exception[c].exc \in {"MemoryError", "OSError"}

SpecBuilt(c) == "dashboards" \in DOMAIN workbook_spec[c]

XmlBuilt(c) == "root" \in DOMAIN workbook_xml[c]

Visualizations(c) == request[c].ai_analysis.recommended_visualizations

Columns(c) == request[c].dataset_schema.columns

CalculatedFields(c) == request[c].dataset_schema.calculated_fields

RECURSIVE Descend(_, _)
\* The element reached from e through the first child of each tag.
Descend(e, tags) ==
    IF tags = <<>> THEN e ELSE Descend(Child(e, Head(tags)), Tail(tags))

\* The metadata-record elements of the embedded datasource.
MetadataRecords(xml) ==
    Children(Descend(xml.root, <<"datasources", "datasource", "metadata-records">>),
             "metadata-record")

WorksheetElements(xml) == Children(Child(xml.root, "worksheets"), "worksheet")

DashboardElements(xml) == Children(Child(xml.root, "dashboards"), "dashboard")

\* The zone elements of a dashboard element.
Zones(dashboard) == Children(Descend(dashboard, <<"view", "zones">>), "zone")

MarkClass(worksheet) ==
    Get(Descend(worksheet, <<"table", "view", "panes", "pane", "mark">>), "class")

(***************************************************************************)
(* C1.  generate_workbook returns a GenerationResult and lets no exception *)
(* reach its caller: whenever specification building, workbook XML         *)
(* serialization, datasource XML serialization or packaging raises, the    *)
(* call ends with a result that has success false, error_message equal to  *)
(* the message of the exception, file_path empty and the placeholder       *)
(* workbook specification, which has no dashboards.                        *)
(***************************************************************************)
NoExceptionPropagates ==
    \A c \in Calls :
        /\ propagated[c] = None
        /\ pc[c] = "done" => Returned(c)
        /\ Raised(c) =>
            /\ Returned(c)
            /\ result[c].success = FALSE
            /\ result[c].error_message = exception[c].message
            /\ result[c].file_path = ""
            /\ result[c].workbook_spec.dashboards = <<>>

\* A write of the packaging layer failed and the call returned its result.
PackagingFailureReturned ==
    \E c \in Calls :
        /\ Returned(c)
        /\ exception[c].exc = "OSError"
        /\ handle[c].state = "closed"

(***************************************************************************)
(* C2.  Every result generate_workbook returns has success true or an      *)
(* error_message that is not None, and never both: error_message is set    *)
(* exactly when success is false.                                          *)
(***************************************************************************)
SuccessXorErrorMessage ==
    \A c \in Calls :
        Returned(c) => (result[c].success <=> result[c].error_message = None)

\* A failed result whose message is that of a TypeError or IndexError.
FailedResultWithMessage ==
    \E c \in Calls :
        /\ Returned(c)
        /\ ~result[c].success
        /\ result[c].error_message \notin {None, ""}

(***************************************************************************)
(* C3.  With an empty recommended_visualizations list (and nothing else    *)
(* that fails: no calculated field, no error of the runtime or the         *)
(* operating system) generate_workbook reports success, its workbook       *)
(* specification has one dashboard with no worksheet, and the dashboard    *)
(* element has a zones element without zone children.                      *)
(***************************************************************************)
EmptyVisualizationsSucceed ==
    \A c \in Calls :
        (/\ pc[c] = "done"
         /\ Visualizations(c) = <<>>
         /\ CalculatedFields(c) = <<>>
         /\ ~EnvironmentError(c))
        => /\ Returned(c)
           /\ result[c].success
           /\ Len(result[c].workbook_spec.dashboards) = 1
           /\ result[c].workbook_spec.dashboards[1].worksheets = <<>>
           /\ XmlBuilt(c)
           /\ Len(DashboardElements(workbook_xml[c])) = 1
           /\ Len(Children(Child(DashboardElements(workbook_xml[c])[1], "view"),
                           "zones")) = 1
           /\ Zones(DashboardElements(workbook_xml[c])[1]) = <<>>

(***************************************************************************)
(* C4.  For a schema with n columns and k calculated fields (and at least  *)
(* one visualization, no error of the runtime or the operating system)     *)
(* generation succeeds and metadata-records holds n + k records: the       *)
(* columns in order with ordinals 0..n-1, then the calculated fields in    *)
(* order with ordinals n..n+k-1.                                           *)
(***************************************************************************)
MetadataRecordPerField ==
    \A c \in Calls :
        (/\ pc[c] = "done"
         /\ Visualizations(c) # <<>>
         /\ ~EnvironmentError(c))
        => /\ Returned(c)
           /\ result[c].success
           /\ XmlBuilt(c)
           /\ LET n == Len(Columns(c))
                  k == Len(CalculatedFields(c))
                  records == MetadataRecords(workbook_xml[c])
              IN  /\ Len(records) = n + k
                  /\ \A i \in 1..(n + k) :
                        /\ Child(records[i], "ordinal").text = ToString(i - 1)
                        /\ Child(records[i], "remote-name").text =
                            IF i <= n THEN Columns(c)[i].name
                            ELSE CalculatedFields(c)[i - n].name

(***************************************************************************)
(* C5.  The workbook specification _create_workbook_specification builds   *)
(* has exactly one dashboard; its worksheet list is as long as             *)
(* recommended_visualizations; the worksheet at 0-based position i wraps   *)
(* the i-th visualization and is named "Sheet {i+1}"; the workbook name is *)
(* the dataset name followed by "_Dashboard".                              *)
(***************************************************************************)
OneWorksheetPerVisualization ==
    \A c \in Calls :
        SpecBuilt(c) =>
            /\ Len(workbook_spec[c].dashboards) = 1
            /\ LET worksheets == workbook_spec[c].dashboards[1].worksheets
               IN  /\ Len(worksheets) = Len(Visualizations(c))
                   /\ \A i \in 0..(Len(worksheets) - 1) :
                        /\ worksheets[i + 1].visualization = Visualizations(c)[i + 1]
                        /\ worksheets[i + 1].name = "Sheet " \o ToString(i + 1)
            /\ workbook_spec[c].name = request[c].dataset_schema.name \o "_Dashboard"

\* A specification built from three or more visualizations.
SpecOfSeveralVisualizations ==
    \E c \in Calls :
        /\ SpecBuilt(c)
        /\ Len(Visualizations(c)) >= 3
        /\ workbook_spec[c].dashboards[1].worksheets[3].name = "Sheet 3"

(***************************************************************************)
(* C6.  In a dashboard of N worksheets the zone of the worksheet at        *)
(* 0-based index i is 400 wide and 300 high, at x = (i mod 2) * 400,       *)
(* y = (i div 2) * 300 when N > 2 and at x = i * 400, y = 0 when N <= 2;   *)
(* for N = 3 the zones are (0,0), (400,0), (0,300).                        *)
(***************************************************************************)
\* The x, y, w, h attributes of a zone element.
ZoneBox(zone) == <<Get(zone, "x"), Get(zone, "y"), Get(zone, "w"), Get(zone, "h")>>

ZoneGridPositions ==
    \A c \in Calls :
        XmlBuilt(c) =>
            LET zones == Zones(DashboardElements(workbook_xml[c])[1])
                N == Len(Visualizations(c))
            IN  /\ Len(zones) = N
                /\ \A i \in 0..(N - 1) :
                    ZoneBox(zones[i + 1]) =
                        IF N > 2
                        THEN <<ToString((i % 2) * 400), ToString((i \div 2) * 300),
                               "400", "300">>
                        ELSE <<ToString(i * 400), "0", "400", "300">>
                /\ N = 3 =>
                    [i \in 1..3 |-> ZoneBox(zones[i])] =
                        << <<"0", "0", "400", "300">>,
                           <<"400", "0", "400", "300">>,
                           <<"0", "300", "400", "300">> >>

\* A dashboard of four worksheets: the last zone is in the second row and
\* the second column.
FourZoneDashboard ==
    \E c \in Calls :
        /\ XmlBuilt(c)
        /\ Len(Visualizations(c)) = 4
        /\ ZoneBox(Zones(DashboardElements(workbook_xml[c])[1])[4]) =
            <<"400", "300", "400", "300">>

(***************************************************************************)
(* C7.  The archive a call of _create_twbx_file has written and returned   *)
(* holds the entries workbook.twb and Data/Datasources/datasource.tds,     *)
(* then Data/{dataset name}.csv exactly when include_sample_data is set,   *)
(* and no other entry, whatever was at its path before.                    *)
(***************************************************************************)
\* _create_twbx_file of call c has returned its path.
TwbxWritten(c) ==
    /\ pc[c] = "return" \/ (Returned(c) /\ result[c].success)
    /\ request[c].output_format = "twbx"

EntryNames(file) == [i \in DOMAIN file.content |-> file.content[i].name]

SampleCsvs(c) ==
    IF handle[c].path = None THEN {}
    ELSE {piece.data : piece \in
            {q \in Range(fs[handle[c].path].content) :
                q.writer = c /\ q.data.kind = "csv"}}

ColumnNames(c) == [i \in DOMAIN Columns(c) |-> Columns(c)[i].name]

SampleCsvRowsMin ==
    \A c \in Calls : \A csv \in SampleCsvs(c) :
        /\ csv.rows[1] = ColumnNames(c)
        /\ Len(csv.rows) - 1 = Min(100, request[c].dataset_schema.total_rows)

(***************************************************************************)
(* C8 as amended.  The header row is followed by min(100, total_rows) data *)
(* rows when total_rows is not negative and by no data row when it is.     *)
(***************************************************************************)
SampleCsvRows ==
    \A c \in Calls : \A csv \in SampleCsvs(c) :
        /\ csv.rows[1] = ColumnNames(c)
        /\ Len(csv.rows) - 1 =
            IF request[c].dataset_schema.total_rows < 0 THEN 0
            ELSE Min(100, request[c].dataset_schema.total_rows)

\* A sample CSV of a schema with columns and more than 100 rows.
SampleCsvOfLargeDataset ==
    \E c \in Calls : \E csv \in SampleCsvs(c) :
        /\ request[c].dataset_schema.total_rows > 100
        /\ Len(Columns(c)) = 2
        /\ Len(csv.rows) = 101

(***************************************************************************)
(* C9.  _get_tableau_data_type is total over DataType: integer, float,     *)
(* string, datetime, boolean and categorical map to "integer", "real",     *)
(* "string", "datetime", "boolean" and "string", and every other value     *)
(* (date) maps to "string"; the remote-type and local-type of each         *)
(* column's metadata record carry that value.                              *)
(***************************************************************************)
TableauTypeOf(data_type) ==
    CASE data_type = "integer" -> "integer"
      [] data_type = "float" -> "real"
      [] data_type = "string" -> "string"
      [] data_type = "datetime" -> "datetime"
      [] data_type = "boolean" -> "boolean"
      [] data_type = "categorical" -> "string"
      [] OTHER -> "string"

MarkClassOf(chart_type) ==
    CASE chart_type = "bar" -> "Bar"
      [] chart_type = "line" -> "Line"
      [] chart_type = "area" -> "Area"
      [] chart_type = "scatter" -> "Circle"
      [] chart_type = "pie" -> "Pie"
      [] chart_type = "heatmap" -> "Square"
      [] chart_type = "treemap" -> "Square"
      [] chart_type = "map" -> "Map"
      [] chart_type \in {"histogram", "filled_map", "gantt", "packed_bubbles",
                         "box_plot", "bullet_graph"} -> "Automatic"

MarkClassPerChartType ==
    \A c \in Calls :
        /\ XmlBuilt(c) =>
            LET worksheets == WorksheetElements(workbook_xml[c])
            IN  /\ Len(worksheets) = Len(Visualizations(c))
                /\ \A i \in DOMAIN worksheets :
                    MarkClass(worksheets[i]) =
                        MarkClassOf(Visualizations(c)[i].chart_type)
        /\ (Raised(c) /\ ~EnvironmentError(c)) =>
            Visualizations(c) = <<>> \/ CalculatedFields(c) # <<>>

\* A worksheet of a chart type outside the mark table, serialized.
UnmappedChartTypeSerialized ==
    \E c \in Calls :
        /\ XmlBuilt(c)
        /\ \E i \in DOMAIN Visualizations(c) :
            /\ Visualizations(c)[i].chart_type = "gantt"
            /\ MarkClass(WorksheetElements(workbook_xml[c])[i]) = "Automatic"

(***************************************************************************)
(* C11.  Every workbook document _generate_workbook_xml emits has the root *)
(* element workbook with version "2023.3", whose children are, in this     *)
(* order and no other: preferences, repository-location, datasources,      *)
(* worksheets, dashboards, windows.                                        *)
(***************************************************************************)
ChildTags(e) == [i \in DOMAIN e.kids |-> e.kids[i].tag]

WorkbookRootChildren ==
    \A c \in Calls :
        XmlBuilt(c) =>
            /\ workbook_xml[c].root.tag = "workbook"
            /\ Get(workbook_xml[c].root, "version") = "2023.3"
            /\ ChildTags(workbook_xml[c].root) =
                <<"preferences", "repository-location", "datasources",
                  "worksheets", "dashboards", "windows">>

\* A .twb file on disk that holds the document of three worksheets.
TwbDocumentOnDisk ==
    \E c \in Calls :
        /\ Returned(c)
        /\ result[c].success
        /\ request[c].output_format = "twb"
        /\ fs[result[c].file_path].content[1].data = workbook_xml[c]
        /\ Len(Child(workbook_xml[c].root, "worksheets").kids) = 3
        /\ Len(Child(workbook_xml[c].root, "dashboards").kids) = 1

(***************************************************************************)
(* C12.  Generation is all-or-nothing: a call that returns success false   *)
(* has neither created nor modified the file at its output path (what was  *)
(* there before the call, a file or nothing, is still there), and a call   *)
(* that returns success true has left the complete output at file_path.    *)
(* Before the call of this specification every file is Absent or OldFile.  *)
(***************************************************************************)
\* The output path of the request of call c.
OutputPath(c) ==
    IF request[c].output_format = "twbx"
    THEN TwbxPath(request[c].dataset_schema.name \o "_Dashboard")
    ELSE TwbPath(request[c].dataset_schema.name \o "_Dashboard")

\* The data of the pieces of a file, in order.
FileData(file) == [i \in DOMAIN file.content |-> file.content[i].data]

\* The file holds exactly the output of call c.
CompleteOutput(file, c) ==
    IF request[c].output_format = "twbx"
    THEN /\ file.kind = "zip"
         /\ Len(file.content) = IF request[c].include_sample_data THEN 3 ELSE 2
         /\ file.content[1].data = workbook_xml[c]
         /\ file.content[2].data = datasource_xml[c]
         /\ \A i \in DOMAIN file.content : file.content[i].writer = c
    ELSE /\ file.kind = "text"
         /\ FileData(file) = <<workbook_xml[c]>>
         /\ file.content[1].writer = c

AllOrNothing ==
    \A c \in Calls :
        Returned(c) =>
            IF result[c].success
            THEN /\ result[c].file_path = OutputPath(c)
                 /\ CompleteOutput(fs[result[c].file_path], c)
            ELSE fs[OutputPath(c)] \in {Absent, OldFile}

(***************************************************************************)
(* C14.  On every exit path of the packaging layer, the failure of a write *)
(* of the workbook, the datasource entry or the sample CSV included, the   *)
(* handle it opened is closed before generate_workbook returns: a handle   *)
(* is open only inside the with block that opened it, and no handle is     *)
(* open after a call.                                                      *)
(***************************************************************************)
\* Call c is inside the with block of _create_twb_file or _create_twbx_file.
InWithBlock(c) ==
    pc[c] \in {"twb_write", "twb_close", "twbx_workbook", "twbx_datasource",
               "twbx_sample", "twbx_close"}

HandlesClosed ==
    \A c \in Calls :
        /\ handle[c].state = "open" => InWithBlock(c)
        /\ pc[c] \in {"return", "done"} => handle[c].state \in {"none", "closed"}
        /\ (pc[c] = "done" /\ handle[c].state = "none") =>
                fs[OutputPath(c)] \in {Absent, OldFile}

\* The write of the sample CSV failed after two entries were written, and
\* the call has returned with its archive handle closed.
SampleWriteFailedHandleClosed ==
    \E c \in Calls :
        /\ Returned(c)
        /\ exception[c].exc = "OSError"
        /\ fs[OutputPath(c)].kind = "zip"
        /\ Len(fs[OutputPath(c)].content) = 2
        /\ request[c].include_sample_data
        /\ handle[c] = ClosedHandle(OutputPath(c))

(***************************************************************************)
(* C15.  The output path depends only on the output directory, the dataset *)
(* name and the output format: a successful call returns                   *)
(* {output_dir}/{dataset name}_Dashboard.twb or .twbx.  Two successive     *)
(* successful generations for the same dataset name and format return the  *)
(* same file_path, and after the second the file holds only the output of  *)
(* the second.                                                             *)
(***************************************************************************)
Succeeded(c) == Returned(c) /\ result[c].success

SamePathInputs(a, b) ==
    /\ request[a].dataset_schema.name = request[b].dataset_schema.name
    /\ request[a].output_format = request[b].output_format

SuccessiveOverwrite ==
    /\ \A c \in Calls :
        Succeeded(c) =>
            result[c].file_path =
                output_directory \o "/" \o request[c].dataset_schema.name
                    \o "_Dashboard." \o request[c].output_format
    /\ (Succeeded(1) /\ Succeeded(2) /\ SamePathInputs(1, 2)) =>
            /\ result[1].file_path = result[2].file_path
            /\ CompleteOutput(fs[result[2].file_path], 2)

\* A second archive without sample data written over a first one with it,
\* from another datasource identifier.
SecondGenerationOverFirst ==
    /\ Succeeded(1)
    /\ Succeeded(2)
    /\ SamePathInputs(1, 2)
    /\ request[1].output_format = "twbx"
    /\ request[1].include_sample_data
    /\ ~request[2].include_sample_data
    /\ workbook_xml[1] # workbook_xml[2]
    /\ Len(fs[result[2].file_path].content) = 2

(***************************************************************************)
(* C16.  XML serialization is deterministic: two runs of                   *)
(* _generate_workbook_xml on the same workbook specification and the same  *)
(* request produce identical documents.                                    *)
(***************************************************************************)
\* Calls a and b have serialized the same specification and request.
SameSerialization(a, b) ==
    /\ XmlBuilt(a)
    /\ XmlBuilt(b)
    /\ request[a] = request[b]
    /\ workbook_spec[a] = workbook_spec[b]

DeterministicXml ==
    \A a, b \in Calls :
        SameSerialization(a, b) => workbook_xml[a] = workbook_xml[b]

(***************************************************************************)
(* C16 as amended.  Two runs on the same specification and request produce *)
(* documents that are identical but for the identifier _generate_id drew   *)
(* for the run: it names the datasource (federated.{id}) in the datasource *)
(* element, in the datasource reference of each worksheet and in the       *)
(* column of each encoding.  Writing the identifier of one run for that of *)
(* the other in these places makes the documents equal.                    *)
(***************************************************************************)
\* The name attribute of the embedded datasource.
DatasourceName(xml) ==
    Get(Descend(xml.root, <<"datasources", "datasource">>), "name")

\* The field names the visualizations of call c put on a shelf.
ShelfFields(c) ==
    UNION {Range(v.x_axis) \cup Range(v.y_axis) \cup {v.color_field, v.size_field} :
            v \in Range(Visualizations(c))}

RECURSIVE WithDatasourceName(_, _, _, _)
\* Element e with datasource name new written for datasource name old, in
\* the name of datasource elements and the text of encoding columns.
WithDatasourceName(e, old, new, fields) ==
    [tag |-> e.tag,
     attrs |->
        IF e.tag = "datasource"
        THEN [i \in DOMAIN e.attrs |->
                IF e.attrs[i] = <<"name", old>> THEN <<"name", new>> ELSE e.attrs[i]]
        ELSE e.attrs,
     text |->
        IF e.tag = "column" /\ \E f \in fields : e.text = "[" \o old \o "].[" \o f \o "]"
        THEN "[" \o new \o "].[" \o
             (CHOOSE f \in fields : e.text = "[" \o old \o "].[" \o f \o "]") \o "]"
        ELSE e.text,
     kids |-> [i \in DOMAIN e.kids |->
                WithDatasourceName(e.kids[i], old, new, fields)]]

DeterministicButForId ==
    \A a, b \in Calls :
        SameSerialization(a, b) =>
            /\ \E id \in GeneratedIds :
                    DatasourceName(workbook_xml[a]) = "federated." \o id
            /\ [workbook_xml[a] EXCEPT !.root =
                    WithDatasourceName(@, DatasourceName(workbook_xml[a]),
                                       DatasourceName(workbook_xml[b]),
                                       ShelfFields(a))]
                = workbook_xml[b]

\* Two runs on the same specification and request under two identifiers.
SameRequestTwoIdentifiers ==
    /\ SameSerialization(1, 2)
    /\ DatasourceName(workbook_xml[1]) # DatasourceName(workbook_xml[2])
    /\ Len(WorksheetElements(workbook_xml[1])) = 3

(***************************************************************************)
(* C13.  As claimed: when two calls with the same output directory,        *)
(* dataset name and output format run concurrently and neither fails, both *)
(* return success true with the same file_path, and after both have        *)
(* finished the file holds the complete output of one of them (the one     *)
(* that wrote last), never a mixture of the two outputs.                   *)
(***************************************************************************)
BothFinished == pc[1] = "done" /\ pc[2] = "done"

OutputPieceOf(c, n, data) ==
    IF request[c].output_format # "twbx" THEN n = 1 /\ data = workbook_xml[c]
    ELSE \/ n = 1 /\ data = workbook_xml[c]
         \/ n = 2 /\ data = datasource_xml[c]
         \/ /\ n = 3
            /\ request[c].include_sample_data
            /\ \E low \in BOOLEAN :
                    data = _generate_sample_csv(request[c].dataset_schema, low)

OutputLength(c) ==
    IF request[c].output_format # "twbx" THEN 1
    ELSE IF request[c].include_sample_data THEN 3 ELSE 2

ValidIffNoErrors ==
    \A object \in ObjectsOf("ValidationResult") :
        ~object.is_valid <=> object.errors # <<>>

(***************************************************************************)
(* C18.  Constructing a KPISpecification with priority outside [1,5] or a  *)
(* DatasetSchema with data_quality_score outside [0,1] fails with a        *)
(* validation error, so no such object exists and none reaches             *)
(* generate_workbook.                                                      *)
(***************************************************************************)
ScoreInUnitInterval(q) == 0 <= q.num /\ q.num <= q.den

OutOfRangeRejected ==
    /\ \A made \in models :
            /\ (/\ made.class = "KPISpecification"
                /\ Given(made.kwargs, "priority")
                /\ made.kwargs.priority \notin 1..5)
               => IsRaise(made.outcome)
            /\ (/\ made.class = "DatasetSchema"
                /\ Given(made.kwargs, "data_quality_score")
                /\ ~ScoreInUnitInterval(made.kwargs.data_quality_score))
               => IsRaise(made.outcome)
    /\ \A c \in Calls :
        pc[c] # "idle" =>
            /\ ScoreInUnitInterval(request[c].dataset_schema.data_quality_score)
            /\ \A k \in DOMAIN request[c].ai_analysis.recommended_kpis :
                    request[c].ai_analysis.recommended_kpis[k].priority \in 1..5

\* Both kinds of construction were refused, and a call runs on a schema
\* with a score on the boundary.
RejectedThenCalledInRange ==
    /\ \E made \in models :
        /\ made.class = "KPISpecification"
        /\ Given(made.kwargs, "priority")
        /\ made.kwargs.priority = 6
        /\ IsRaise(made.outcome)
    /\ pc[1] = "done"
    /\ request[1].dataset_schema.data_quality_score = [num |-> 2, den |-> 2]

(***************************************************************************)
(* C19.  In every worksheet the children of the encodings element are, in  *)
(* this order: one rows encoding per y_axis field in list order, one       *)
(* columns encoding per x_axis field in list order, one color encoding if  *)
(* color_field is set, one size encoding if size_field is set.  Rows and   *)
(* size encodings carry an aggregation attribute, the capitalized          *)
(* aggregation_type, exactly when aggregation_type is set and is not       *)
(* "none"; columns and color encodings never carry one.                    *)
(***************************************************************************)
Capitalized ==
    [sum |-> "Sum", avg |-> "Avg", count |-> "Count", min |-> "Min", max |-> "Max"]

\* The shelf, field and aggregation of each encoding the claim expects for
\* a visualization.
ExpectedEncodings(v) ==
    LET aggregation ==
            IF v.aggregation_type # None /\ v.aggregation_type # "none"
            THEN Capitalized[v.aggregation_type] ELSE None
    IN  [i \in DOMAIN v.y_axis |-> <<"rows", v.y_axis[i], aggregation>>]
        \o [i \in DOMAIN v.x_axis |-> <<"columns", v.x_axis[i], None>>]
        \o (IF v.color_field # None THEN <<<<"color", v.color_field, None>>>> ELSE <<>>)
        \o (IF v.size_field # None THEN <<<<"size", v.size_field, aggregation>>>>
            ELSE <<>>)

EncodingElements(worksheet) ==
    Descend(worksheet, <<"table", "view", "panes", "pane", "encodings">>).kids

\* An encoding element is the one expected: its shelf, one column child
\* with the field of the datasource, and the aggregation attribute or none.
EncodingIs(encoding, expected, datasource_name) ==
    /\ encoding.tag = expected[1]
    /\ ChildTags(encoding) = <<"column">>
    /\ encoding.kids[1].text =
            "[" \o datasource_name \o "].[" \o expected[2] \o "]"
    /\ encoding.kids[1].attrs =
            IF expected[3] = None THEN <<>> ELSE <<<<"aggregation", expected[3]>>>>

EncodingOrder ==
    \A c \in Calls :
        XmlBuilt(c) =>
            \A i \in DOMAIN Visualizations(c) :
                LET encodings == EncodingElements(WorksheetElements(workbook_xml[c])[i])
                    expected == ExpectedEncodings(Visualizations(c)[i])
                IN  /\ Len(encodings) = Len(expected)
                    /\ \A j \in DOMAIN expected :
                        EncodingIs(encodings[j], expected[j],
                                   DatasourceName(workbook_xml[c]))

\* A worksheet with encodings on every shelf, and one whose size encoding
\* has no aggregation because aggregation_type is not set.
EveryShelfEncoded ==
    \E c \in Calls :
        /\ XmlBuilt(c)
        /\ \E i \in DOMAIN Visualizations(c) :
            /\ ChildTags(Descend(WorksheetElements(workbook_xml[c])[i],
                                 <<"table", "view", "panes", "pane", "encodings">>)) =
                    <<"rows", "rows", "columns", "color", "size">>
            /\ Visualizations(c)[i].aggregation_type = "sum"
        /\ \E i \in DOMAIN Visualizations(c) :
            /\ Visualizations(c)[i].aggregation_type = None
            /\ Visualizations(c)[i].size_field # None

(***************************************************************************)
(* C20.  The metadata record of every source column has aggregation "Sum"  *)
(* if recommended_role is measure and "Count" otherwise, and contains-null *)
(* "true" if and only if null_count > 0; the metadata record of every      *)
(* calculated field has contains-null "false".  (For requests with a       *)
(* visualization, without an error of the runtime or the operating         *)
(* system.)                                                                *)
(***************************************************************************)
\* The records of the source columns of call c are as claimed.
ColumnRecordsAsClaimed(c) ==
    /\ Len(MetadataRecords(workbook_xml[c])) >= Len(Columns(c))
    /\ \A i \in DOMAIN Columns(c) :
        LET record == MetadataRecords(workbook_xml[c])[i]
        IN  /\ Child(record, "aggregation").text =
                    IF Columns(c)[i].recommended_role = "measure"
                    THEN "Sum" ELSE "Count"
            /\ Child(record, "contains-null").text = "true"
                    <=> Columns(c)[i].null_count > 0
            /\ Child(record, "contains-null").text \in {"true", "false"}

\* The records of the calculated fields of call c are as claimed.
CalculatedRecordsAsClaimed(c) ==
    /\ Len(MetadataRecords(workbook_xml[c])) =
            Len(Columns(c)) + Len(CalculatedFields(c))
    /\ \A q \in DOMAIN CalculatedFields(c) :
        Child(MetadataRecords(workbook_xml[c])[Len(Columns(c)) + q],
              "contains-null").text = "false"

MetadataAggregationAndNulls ==
    \A c \in Calls :
        (/\ pc[c] = "done"
         /\ Visualizations(c) # <<>>
         /\ ~EnvironmentError(c))
        => /\ XmlBuilt(c)
           /\ ColumnRecordsAsClaimed(c)
           /\ CalculatedRecordsAsClaimed(c)

(***************************************************************************)
(* C21.  The embedded datasource has one column-instance per source column *)
(* and then one per calculated field, in list order, and the type of each  *)
(* is "nominal" if the role of its field is dimension and "quantitative"   *)
(* for every other role (measure, attribute, none).  (For requests with a  *)
(* visualization, without an error of the runtime or the operating         *)
(* system.)                                                                *)
(***************************************************************************)
\* The column-instance elements of the embedded datasource.
ColumnInstances(xml) ==
    Children(Descend(xml.root, <<"datasources", "datasource", "column-instances">>),
             "column-instance")

\* The type the claim gives to a field of a role.
InstanceTypeOf(role) == IF role = "dimension" THEN "nominal" ELSE "quantitative"

\* The column-instances of the source columns of call c are as claimed.
ColumnInstancesAsClaimed(c) ==
    /\ Len(ColumnInstances(workbook_xml[c])) >= Len(Columns(c))
    /\ \A i \in DOMAIN Columns(c) :
        LET instance == ColumnInstances(workbook_xml[c])[i]
        IN  /\ Get(instance, "column") = "[" \o Columns(c)[i].name \o "]"
            /\ Get(instance, "type") = InstanceTypeOf(Columns(c)[i].recommended_role)

\* The column-instances of the calculated fields of call c are as claimed.
CalculatedInstancesAsClaimed(c) ==
    /\ Len(ColumnInstances(workbook_xml[c])) =
            Len(Columns(c)) + Len(CalculatedFields(c))
    /\ \A q \in DOMAIN CalculatedFields(c) :
        LET instance == ColumnInstances(workbook_xml[c])[Len(Columns(c)) + q]
        IN  /\ Get(instance, "column") = "[" \o CalculatedFields(c)[q].name \o "]"
            /\ Get(instance, "type") = InstanceTypeOf(CalculatedFields(c)[q].role)

ColumnInstancePerField ==
    \A c \in Calls :
        (/\ pc[c] = "done"
         /\ Visualizations(c) # <<>>
         /\ ~EnvironmentError(c))
        => /\ XmlBuilt(c)
           /\ ColumnInstancesAsClaimed(c)
           /\ CalculatedInstancesAsClaimed(c)

(***************************************************************************)
(* C22.  The dashboard element does not depend on DashboardLayout: for two *)
(* dashboard specifications that differ only in layout (layout_type, rows, *)
(* columns, worksheet_positions) _create_dashboard_element gives the same  *)
(* zones at the same positions, and every dashboard element has exactly    *)
(* one device layout, auto-generated and named "Phone".                    *)
(***************************************************************************)
\* Dashboard specifications that are equal but for their layout.
SameButLayout(a, b) == [a EXCEPT !.layout = b.layout] = b

DeviceLayouts(dashboard) ==
    Children(Descend(dashboard, <<"view", "devicelayouts">>), "devicelayout")

DatasourceElements(xml) == Children(Child(xml.root, "datasources"), "datasource")

\* The datasource references of a worksheet element.
DatasourceReferences(worksheet) ==
    Children(Descend(worksheet, <<"table", "view", "datasources">>), "datasource")

SingleDatasourceReferenced ==
    \A c \in Calls :
        XmlBuilt(c) =>
            LET datasources == DatasourceElements(workbook_xml[c])
                name == Get(datasources[1], "name")
            IN  /\ Len(datasources) = 1
                /\ \E id \in GeneratedIds : name = "federated." \o id
                /\ \A w \in DOMAIN WorksheetElements(workbook_xml[c]) :
                    LET worksheet == WorksheetElements(workbook_xml[c])[w]
                        refs == DatasourceReferences(worksheet)
                    IN  /\ Len(refs) = 1
                        /\ Get(refs[1], "caption") = Get(datasources[1], "caption")
                        /\ Get(refs[1], "name") = name
                        /\ \A e \in DOMAIN EncodingElements(worksheet) :
                            \E f \in ShelfFields(c) :
                                EncodingElements(worksheet)[e].kids[1].text =
                                    "[" \o name \o "].[" \o f \o "]"

\* A workbook of three worksheets, each with encodings, on a datasource
\* with the second identifier.
ThreeWorksheetsOneDatasource ==
    \E c \in Calls :
        /\ XmlBuilt(c)
        /\ Len(WorksheetElements(workbook_xml[c])) = 3
        /\ \A w \in 1..3 : EncodingElements(WorksheetElements(workbook_xml[c])[w]) # <<>>
        /\ DatasourceName(workbook_xml[c]) = "federated.0F9E8D7C"

(***************************************************************************)
(* C24.  _get_tableau_data_type maps DataType.DATE to "datetime": the      *)
(* metadata record of every date column has remote-type and local-type     *)
(* "datetime".                                                             *)
(***************************************************************************)
DateMapsToDatetime ==
    \A c \in Calls :
        XmlBuilt(c) =>
            \A i \in DOMAIN Columns(c) :
                Columns(c)[i].data_type = "date" =>
                    LET record == MetadataRecords(workbook_xml[c])[i]
                    IN  /\ Child(record, "remote-type").text = "datetime"
                        /\ Child(record, "local-type").text = "datetime"

(***************************************************************************)
(* C25.  Every zone of a dashboard lies inside the canvas: x + 400 is at   *)
(* most dimensions.width and y + 300 at most dimensions.height, for the    *)
(* dimensions the specification builder produces (1200 by 800) and every   *)
(* number of worksheets.                                                   *)
(***************************************************************************)
\* The attribute of the element is the decimal text of a number from 0 to max.
AttributeAtMost(element, key, max) ==
    max >= 0 /\ \E n \in 0..max : Get(element, key) = ToString(n)

ZonesInsideCanvas ==
    \A a \in returned :
        /\ a.dashboard_spec.dimensions = [width |-> 1200, height |-> 800]
        /\ \A z \in DOMAIN Zones(a.element) :
            /\ AttributeAtMost(Zones(a.element)[z], "x",
                               a.dashboard_spec.dimensions.width - 400)
            /\ AttributeAtMost(Zones(a.element)[z], "y",
                               a.dashboard_spec.dimensions.height - 300)

(***************************************************************************)
(* C26.  In every workbook document every dashboard zone names a worksheet *)
(* element under worksheets, every worksheet element is named by exactly   *)
(* one zone, the worksheet names are pairwise distinct, and the zone ids   *)
(* are 0..N-1 without repetition.                                          *)
(***************************************************************************)
WorksheetNames(xml) ==
    [i \in DOMAIN WorksheetElements(xml) |-> Get(WorksheetElements(xml)[i], "name")]

\* The zones of all the dashboards of a document, in document order.
AllZones(xml) ==
    LET RECURSIVE Gather(_)
        Gather(dashboards) ==
            IF dashboards = <<>> THEN <<>>
            ELSE Zones(Head(dashboards)) \o Gather(Tail(dashboards))
    IN  Gather(DashboardElements(xml))

\* The worksheet a zone names.
ZoneWorksheet(zone) == Get(Child(zone, "worksheet"), "name")

ZonesMatchWorksheets ==
    \A c \in Calls :
        XmlBuilt(c) =>
            LET names == WorksheetNames(workbook_xml[c])
                zones == AllZones(workbook_xml[c])
            IN  /\ \A z \in DOMAIN zones :
                    /\ Len(Children(zones[z], "worksheet")) = 1
                    /\ \E w \in DOMAIN names : ZoneWorksheet(zones[z]) = names[w]
                /\ \A w \in DOMAIN names :
                    Cardinality({z \in DOMAIN zones :
                                    ZoneWorksheet(zones[z]) = names[w]}) = 1
                /\ \A v, w \in DOMAIN names : v # w => names[v] # names[w]
                /\ Len(zones) = Len(names)
                /\ \A z \in DOMAIN zones : Get(zones[z], "id") = ToString(z - 1)

\* A document of four worksheets whose last zone, id 3, names "Sheet 4".
FourSheetsFourZones ==
    \E c \in Calls :
        /\ XmlBuilt(c)
        /\ Len(WorksheetNames(workbook_xml[c])) = 4
        /\ Get(AllZones(workbook_xml[c])[4], "id") = "3"
        /\ ZoneWorksheet(AllZones(workbook_xml[c])[4]) = "Sheet 4"
        /\ WorksheetNames(workbook_xml[c])[4] = "Sheet 4"

(***************************************************************************)
(* C27.  A call that fails during specification building, workbook XML     *)
(* serialization or datasource XML serialization leaves the filesystem     *)
(* untouched: until both documents are built the call has opened no file,  *)
(* and no file is created, truncated or modified.                          *)
(***************************************************************************)
\* Call c has not reached the packaging layer: it is before it, or it has
\* failed before its datasource document was built.
BeforePackaging(c) ==
    \/ pc[c] \in {"spec", "workbook_xml", "datasource_xml"}
    \/ pc[c] = "done" /\ Raised(c) /\ "root" \notin DOMAIN datasource_xml[c]

\* Every file is as it was before the first call.
FilesystemUntouched ==
    \/ \A f \in Files : fs[f] = Absent
    \/ \A f \in Files : fs[f] = OldFile

EarlyFailureLeavesFiles ==
    \A c \in Calls :
        BeforePackaging(c) => handle[c] = NoHandle /\ FilesystemUntouched

\* Serialization of the workbook failed with TypeError over old files.
SerializationFailedOverOldFiles ==
    \E c \in Calls :
        /\ pc[c] = "done"
        /\ BeforePackaging(c)
        /\ exception[c].exc = "TypeError"
        /\ SpecBuilt(c)
        /\ \A f \in Files : fs[f] = OldFile

(***************************************************************************)
(* C28.  A successful call creates or overwrites exactly one file of the   *)
(* output directory, the .twb or .twbx at its file_path, and no other; in  *)
(* twb mode the file holds the workbook document alone, whatever           *)
(* include_sample_data and the datasource document are; and no CSV file is *)
(* ever written into the output directory.                                 *)
(***************************************************************************)
\* Every file but the one at path is as it was before the first call.
OthersUntouched(path) ==
    \/ \A f \in Files \ {path} : fs[f] = Absent
    \/ \A f \in Files \ {path} : fs[f] = OldFile

\* Every piece of the file was written by call c.
WrittenBy(file, c) ==
    file.content # <<>> /\ \A i \in DOMAIN file.content : file.content[i].writer = c

OneFileWritten ==
    /\ \A n \in DatasetNames : fs[Path(n \o ".csv")] \in {Absent, OldFile}
    /\ \A c \in Calls :
        (Returned(c) /\ result[c].success) =>
            LET path == result[c].file_path
                name == request[c].dataset_schema.name \o "_Dashboard"
            IN  /\ path = IF request[c].output_format = "twbx"
                          THEN TwbxPath(name) ELSE TwbPath(name)
                /\ fs[path].kind = IF request[c].output_format = "twbx"
                                   THEN "zip" ELSE "text"
                /\ WrittenBy(fs[path], c)
                /\ OthersUntouched(path)
                /\ request[c].output_format # "twbx" =>
                    fs[path].content = <<Piece(None, workbook_xml[c], c)>>

\* A text workbook written with include_sample_data set, over old files:
\* the CSV and the archive of the dataset are as they were.
TwbWithSampleFlagWritten ==
    \E c \in Calls :
        /\ Returned(c)
        /\ result[c].success
        /\ request[c].include_sample_data
        /\ request[c].output_format = "twb"
        /\ fs[Path(request[c].dataset_schema.name \o ".csv")] = OldFile
        /\ fs[TwbxPath(request[c].dataset_schema.name \o "_Dashboard")] = OldFile

(***************************************************************************)
(* C29.  generate_workbook leaves its request as it was given: no step of  *)
(* a call, on the path to success or to failure, changes the columns or    *)
(* the calculated_fields of the dataset schema or the                      *)
(* recommended_visualizations of the analysis, in content or in order.     *)
(***************************************************************************)
RequestLeftUnchanged ==
    [][\A c \in Calls :
        pc[c] # "idle" =>
            /\ request'[c].dataset_schema.columns = request[c].dataset_schema.columns
            /\ request'[c].dataset_schema.calculated_fields =
                    request[c].dataset_schema.calculated_fields
            /\ request'[c].ai_analysis.recommended_visualizations =
                    request[c].ai_analysis.recommended_visualizations]_vars

\* A call on two columns of different names and three visualizations that
\* has returned success.
TwoColumnRequestServed ==
    \E c \in Calls :
        /\ Returned(c)
        /\ result[c].success
        /\ Len(Columns(c)) = 2
        /\ Columns(c)[1].name # Columns(c)[2].name
        /\ Len(Visualizations(c)) = 3

(***************************************************************************)
(* C30.  For every source column the metadata record and the               *)
(* column-instance agree on the role: the aggregation is "Sum" exactly     *)
(* when the type is "quantitative" and "Count" exactly when it is          *)
(* "nominal", whatever recommended_role is.                                *)
(***************************************************************************)
AggregationAgreesWithType ==
    \A c \in Calls :
        XmlBuilt(c) =>
            \A i \in DOMAIN Columns(c) :
                LET aggregation ==
                        Child(MetadataRecords(workbook_xml[c])[i], "aggregation").text
                    type == Get(ColumnInstances(workbook_xml[c])[i], "type")
                IN  /\ aggregation = "Sum" <=> type = "quantitative"
                    /\ aggregation = "Count" <=> type = "nominal"

\* C30 as it holds.  The record and the instance of a source column agree
\* when recommended_role is dimension (Count, nominal) or measure (Sum,
\* quantitative); for attribute and for no role the record has "Count" and
\* the instance "quantitative".
AggregationAgreesForDimensionAndMeasure ==
    \A c \in Calls :
        XmlBuilt(c) =>
            \A i \in DOMAIN Columns(c) :
                LET role == Columns(c)[i].recommended_role
                    aggregation ==
                        Child(MetadataRecords(workbook_xml[c])[i], "aggregation").text
                    type == Get(ColumnInstances(workbook_xml[c])[i], "type")
                IN  /\ role \in {"dimension", "measure"} =>
                        /\ aggregation = "Sum" <=> type = "quantitative"
                        /\ aggregation = "Count" <=> type = "nominal"
                /\ role \notin {"dimension", "measure"} =>
                        /\ aggregation = "Count"
                        /\ type = "quantitative"

\* A document with an attribute column and a column of no role.
AttributeColumnSerialized ==
    \E c \in Calls :
        /\ XmlBuilt(c)
        /\ \E i \in DOMAIN Columns(c) :
            /\ Columns(c)[i].recommended_role = "attribute"
            /\ Child(MetadataRecords(workbook_xml[c])[i], "aggregation").text = "Count"
            /\ Get(ColumnInstances(workbook_xml[c])[i], "type") = "quantitative"
        /\ \E i \in DOMAIN Columns(c) : Columns(c)[i].recommended_role = None

====
